---------------------------- MODULE Spec2Model ----------------------------
(***************************************************************************)
(* A model of the TailWagg weekly dataset generator                        *)
(* (src/services/create_tableau_datasets.py) and of the feature helpers    *)
(* (src/features.py).                                                      *)
(*                                                                         *)
(* Dates are day numbers counted from 1970-01-01 (a Thursday), as pandas   *)
(* counts them.  Tables are sequences of records, one record per row, and  *)
(* a column missing from a row (NaN / None) is the value Null.             *)
(*                                                                         *)
(* The module holds several specifications, one per part of the program:   *)
(*   SpecBucket   the weekly bucketing of order dates                      *)
(*   SpecTrack    create_reactivation_tracker, then create_kpi_dashboard   *)
(*   SpecAgg      create_weekly_product_performance                        *)
(*   SpecMain     main: the seven create_* calls and the files they write  *)
(*   SpecLabel    calculate_trend_labels and the weekly relabelling        *)
(***************************************************************************)
EXTENDS Integers, Sequences, FiniteSets, TLC

VARIABLES
    pc,                 \* position of the run inside the function modelled
    order_date,         \* SpecBucket: the df['order_date'] column
    week_start_date,    \* SpecBucket: the df['week_start_date'] column
    weekly_product,     \* SpecTrack: the weekly_product table handed to the tracker
    featured_weeks,     \* SpecTrack: the week_start_dates present in featured_data
    reactivation_tracker,        \* SpecTrack: the table create_reactivation_tracker returns
    reactivation_tracker_sorted, \* SpecTrack: the local table of create_kpi_dashboard
    kpi_dashboard,      \* SpecTrack: the table create_kpi_dashboard returns
    featured_data,      \* SpecAgg: the daily featured table
    calendar_events,    \* SpecAgg: the calendar table
    product_brands,     \* SpecAgg: the product -> brand lookup
    weekly_metrics,     \* SpecLift: the local table weekly_metrics of create_kpi_dashboard
    featured_columns,   \* SpecMain: the columns featured_data.csv holds
    promo_values,       \* SpecMain: the values of promo_id.notna() in featured_data
    step,               \* SpecMain: the number of the create_* call main is at
    files_written,      \* SpecMain: the output files written so far, in order
    failed_step,        \* SpecMain: the step whose exception ended the run
    daily_trend,        \* SpecLabel: the table df of calculate_trend_labels
    weekly_trend,       \* SpecLabel: the table weekly that is relabelled
    windows,            \* SpecFeat: the windows handed to calculate_rolling_averages
    features_in,        \* SpecFeat: the caller's table handed to the last call, after the call
    features_out,       \* SpecFeat: the table the last call returned
    seasonal_events,    \* SpecRun: main's seasonal_events
    category_weekly,    \* SpecRun: main's category_weekly
    promo_effectiveness, \* SpecRun: main's promo_effectiveness
    raised,             \* the exception that has left the call, <<>> when none has
    attempts,           \* SpecConn: the connection attempts pg_connection has made
    conn,               \* SpecConn: pg_connection's conn, <<>> for None
    last_exc,           \* SpecConn: pg_connection's last_exc, <<>> for None
    body,               \* SpecConn: how far the body of the with-block has come
    closes,             \* SpecConn: the calls of conn.close()
    environ,            \* SpecEngine: the environment variables that are set
    engine,             \* SpecEngine: test_connection's engine, <<>> for None
    url_parses,         \* SpecEngine: whether create_engine accepts DATABASE_URL
    db_reachable,       \* SpecEngine: whether the database answers SELECT 1
    result,             \* SpecEngine: what test_connection returned, <<>> before
    sales_data,         \* SpecReturns: the rows handed to generate_returns_from_sales
    returns,            \* SpecReturns: the list returns
    counter,            \* SpecReturns: the counter of the return ids
    next_row            \* SpecReturns: the position of the loop in sales_data

bucketVars == <<order_date, week_start_date>>

trackVars == <<weekly_product, featured_weeks, reactivation_tracker,
               reactivation_tracker_sorted, kpi_dashboard>>

aggVars == <<featured_data, calendar_events, product_brands, weekly_metrics>>

mainVars == <<featured_columns, promo_values, step, files_written, failed_step>>

labelVars == <<daily_trend, weekly_trend>>

featVars == <<windows, features_in, features_out>>

runVars == <<seasonal_events, category_weekly, promo_effectiveness>>

connVars == <<attempts, conn, last_exc, body, closes>>

engineVars == <<environ, engine, url_parses, db_reachable, result>>

returnsVars == <<sales_data, returns, counter, next_row>>

serviceVars == <<raised, connVars, engineVars, returnsVars>>

vars == <<pc, bucketVars, trackVars, aggVars, mainVars, labelVars, featVars, runVars,
          serviceVars>>

IdleBucket == order_date = <<>> /\ week_start_date = <<>>

IdleTrack ==
    /\ weekly_product = <<>>
    /\ featured_weeks = {}
    /\ reactivation_tracker = <<>>
    /\ reactivation_tracker_sorted = <<>>
    /\ kpi_dashboard = <<>>

IdleAgg ==
    /\ featured_data = <<>>
    /\ calendar_events = <<>>
    /\ product_brands = <<>>
    /\ weekly_metrics = <<>>

IdleMain ==
    /\ featured_columns = {}
    /\ promo_values = {}
    /\ step = 0
    /\ files_written = <<>>
    /\ failed_step = 0

IdleLabel == daily_trend = <<>> /\ weekly_trend = <<>>

IdleFeat == windows = <<>> /\ features_in = <<>> /\ features_out = <<>>

IdleRun ==
    /\ seasonal_events = <<>>
    /\ category_weekly = <<>>
    /\ promo_effectiveness = <<>>

IdleConn ==
    /\ attempts = 0
    /\ conn = <<>>
    /\ last_exc = <<>>
    /\ body = "not_entered"
    /\ closes = 0

IdleEngine ==
    /\ environ = {}
    /\ engine = <<>>
    /\ url_parses = FALSE
    /\ db_reachable = FALSE
    /\ result = <<>>

IdleReturns ==
    /\ sales_data = <<>>
    /\ returns = <<>>
    /\ counter = 0
    /\ next_row = 0

IdleService == raised = <<>> /\ IdleConn /\ IdleEngine /\ IdleReturns

(***************************************************************************)
(* Dates                                                                   *)
(***************************************************************************)

\* datetime.weekday(): Monday = 0 ... Sunday = 6 (day 0 is a Thursday).
Weekday(d) == (d + 3) % 7

Monday == 0

\* pandas' anchored weekly frequency 'W-MON': the week's anchor weekday.
W_MON == 1

\* Timestamp.to_period('W-<anchor>'): the ordinal of the weekly period that
\* holds day d.  A weekly period of pandas ENDS on its anchor weekday.
ToPeriodW(d, anchor) == ((d + 3 - anchor) \div 7) + 1

\* Period.start_time of the weekly period `ordinal`: its first day.
StartTime(ordinal, anchor) == ordinal * 7 + anchor - 10

\* df['order_date'].dt.to_period('W-MON').dt.start_time, for one date.
WeekStartDate(d) == StartTime(ToPeriodW(d, W_MON), W_MON)

(***************************************************************************)
(* SpecBucket: the bucketing of a column of order dates                    *)
(***************************************************************************)

\* The observation dates run from 2025-01-01 (day 20089) on.
MaxDayOffset == 14

ObsDates == 20089 .. (20089 + MaxDayOffset)

InitBucket ==
    /\ pc = "start"
    /\ order_date \in [1..2 -> ObsDates]
    /\ week_start_date = <<>>
    /\ IdleService
    /\ IdleTrack
    /\ IdleAgg
    /\ IdleMain
    /\ IdleLabel
    /\ IdleFeat
    /\ IdleRun

\* df['week_start_date'] = df['order_date'].dt.to_period('W-MON').dt.start_time
AssignWeekStart ==
    /\ pc = "start"
    /\ week_start_date' = [i \in DOMAIN order_date |-> WeekStartDate(order_date[i])]
    /\ pc' = "bucketed"
    /\ UNCHANGED <<order_date, trackVars, aggVars, mainVars, labelVars, featVars, runVars,
                   serviceVars>>

NextBucket == AssignWeekStart

SpecBucket == InitBucket /\ [][NextBucket]_vars

\* C1: every observation date d is bucketed to the most recent Monday on or
\* before d: week_start_date is a Monday and 0 <= d - week_start_date <= 6.
C1_WeekStartIsMondayOnOrBefore ==
    pc = "bucketed" =>
        \A i \in DOMAIN order_date :
            /\ Weekday(week_start_date[i]) = Monday
            /\ order_date[i] - week_start_date[i] \in 0..6

\* C2: two dates of one Monday-to-Sunday span get the same week_start_date,
\* the Monday of the span.
C2_SameSpanSameWeek ==
    pc = "bucketed" =>
        \A i, j \in DOMAIN order_date :
            LET mi == order_date[i] - Weekday(order_date[i])
                mj == order_date[j] - Weekday(order_date[j])
            IN  mi = mj => /\ week_start_date[i] = week_start_date[j]
                           /\ week_start_date[i] = mi

(***************************************************************************)
(* Numbers.  A column value is the exact quotient                          *)
(*     num / (den + eps * 1e-9)                                            *)
(* so that the program's epsilon-guarded divisions keep their exact value. *)
(* 0/0 is NaN, the missing value of a numeric column.                      *)
(***************************************************************************)

Num(k) == [num |-> k, den |-> 1, eps |-> 0]

\* x / (y + 1e-9)
EpsDiv(x, y) == [num |-> x, den |-> y, eps |-> 1]

\* v * k
Times(v, k) == [v EXCEPT !.num = @ * k]

NaN == [num |-> 0, den |-> 0, eps |-> 0]

IsNaN(v) == v.den = 0 /\ v.eps = 0

\* Equality of two quotients as numbers (both integer and 1e-9 parts agree).
ValEq(a, b) ==
    /\ ~IsNaN(a) /\ ~IsNaN(b)
    /\ a.num * b.den = b.num * a.den
    /\ a.num * b.eps = b.num * a.eps

\* v <= k, for an integer 0 <= k < 10^9 and a quotient of naturals.
ValLeq(v, k) == ~IsNaN(v) /\ v.num <= k * v.den

\* Series.fillna(k)
FillNa(v, k) == IF IsNaN(v) THEN Num(k) ELSE v

(***************************************************************************)
(* Sums, and means of quotients.  The mean of the quotients                *)
(* num / (den + eps * 1e-9) of a column is kept exact as [mean_of |-> the  *)
(* quotients]; it is compared through polynomials in e = 1e-9 with integer *)
(* coefficients, <<c0, c1, c2, ...>> standing for c0 + c1*e + c2*e^2 + ... *)
(***************************************************************************)

RECURSIVE Sum(_)
\* The sum of a sequence of integers.
Sum(s) == IF s = <<>> THEN 0 ELSE Head(s) + Sum(Tail(s))

RECURSIVE Flatten(_)
\* The concatenation of a sequence of tables.
Flatten(ss) == IF ss = <<>> THEN <<>> ELSE Head(ss) \o Flatten(Tail(ss))

PolyCoef(p, i) == IF i \in DOMAIN p THEN p[i] ELSE 0

PolyAdd(p, q) ==
    LET n == IF Len(p) > Len(q) THEN Len(p) ELSE Len(q)
    IN  [i \in 1..n |-> PolyCoef(p, i) + PolyCoef(q, i)]

PolyScale(p, k) == [i \in DOMAIN p |-> k * p[i]]

PolyMul(p, q) ==
    [k \in 1..(Len(p) + Len(q) - 1) |->
        Sum([i \in 1..Len(p) |-> p[i] * PolyCoef(q, k + 1 - i)])]

\* The sign (-1, 0, 1) of the number p stands for: the sign of its first
\* non-zero coefficient, the coefficients being far below 10^9.
PolySign(p) ==
    LET nonzero == {i \in DOMAIN p : p[i] # 0}
    IN  IF nonzero = {} THEN 0
        ELSE LET first == CHOOSE i \in nonzero : \A j \in nonzero : i <= j
             IN  IF p[first] < 0 THEN -1 ELSE 1

\* The quotient v as a fraction p / q of two polynomials.
ToRat(v) == [p |-> <<v.num>>, q |-> <<v.den, v.eps>>]

RatAdd(a, b) ==
    [p |-> PolyAdd(PolyMul(a.p, b.q), PolyMul(b.p, a.q)), q |-> PolyMul(a.q, b.q)]

RECURSIVE RatSum(_)
RatSum(terms) ==
    IF terms = <<>> THEN [p |-> <<0>>, q |-> <<1>>]
    ELSE RatAdd(ToRat(Head(terms)), RatSum(Tail(terms)))

\* Series.mean() of a group's quotients (none of them missing).
MeanRat(terms) ==
    LET total == RatSum(terms)
    IN  [p |-> total.p, q |-> PolyScale(total.q, Len(terms))]

\* a < h / 100, for a fraction a with a positive denominator.
RatLessThanHundredths(a, h) ==
    PolySign(PolyAdd(PolyScale(a.p, 100), PolyScale(a.q, -h))) < 0

\* Equality of two fractions as numbers.
RatEq(a, b) ==
    PolySign(PolyAdd(PolyMul(a.p, b.q), PolyScale(PolyMul(b.p, a.q), -1))) = 0

\* a > h / 100, for a fraction a with a positive denominator.
RatGreaterThanHundredths(a, h) ==
    PolySign(PolyAdd(PolyScale(a.p, 100), PolyScale(a.q, -h))) > 0

\* v > h / 100, for a quotient or a mean of quotients with positive
\* denominators.
GreaterThanHundredths(v, h) ==
    RatGreaterThanHundredths(
        IF "mean_of" \in DOMAIN v THEN MeanRat(v.mean_of) ELSE ToRat(v), h)

\* v >= h / 100
AtLeastHundredths(v, h) ==
    LET a == IF "mean_of" \in DOMAIN v THEN MeanRat(v.mean_of) ELSE ToRat(v)
    IN  PolySign(PolyAdd(PolyScale(a.p, 100), PolyScale(a.q, -h))) >= 0

\* The number k / 100.
Hundredths(k) == [num |-> k, den |-> 100, eps |-> 0]

(***************************************************************************)
(* Tables                                                                  *)
(***************************************************************************)

\* A column or table computed row by row, held as a sequence of its values.
Column(f) == f \o <<>>

\* Lexicographic order of two keys <<a, b, ...>> of the same length.
KeyLess(x, y) ==
    \E i \in DOMAIN x : x[i] < y[i] /\ \A j \in 1..(i - 1) : x[j] = y[j]

\* The keys of a set in ascending order.
SortedKeys(keyset) ==
    Column([k \in 1..Cardinality(keyset) |->
        CHOOSE x \in keyset : Cardinality({y \in keyset : KeyLess(y, x)}) = k - 1])

\* The strings of the key columns, in ascending order; a key holds a string
\* as its position here.
Names == <<"Community", "Gala", "None", "Retail", "Sale", "Toys", "Treats">>

NameRank(name) == CHOOSE i \in DOMAIN Names : Names[i] = name

\* df.sort_values(keys): the rows in ascending key order, rows with equal
\* keys in their order in df.
SortValues(df, keys) ==
    LET n == Len(df)
        rank == Column([i \in 1..n |->
                   Cardinality({j \in 1..n :
                       \/ KeyLess(keys[j], keys[i])
                       \/ (keys[j] = keys[i] /\ j < i)}) + 1])
    IN  Column([k \in 1..n |-> df[CHOOSE i \in 1..n : rank[i] = k]])

\* The key columns ['product_id', 'week_start_date'] of df.
ByProductWeek(df) ==
    Column([i \in DOMAIN df |-> <<df[i].product_id, df[i].week_start_date>>])

\* The key columns in the order of the run-length pass.
ByProductThenWeek(df) ==
    Column([i \in DOMAIN df |-> <<df[i].product_id, df[i].week_start_date>>])

\* The key columns ['week_start_date', 'product_id'] of df.
ByWeekProduct(df) ==
    Column([i \in DOMAIN df |-> <<df[i].week_start_date, df[i].product_id>>])

\* The position (from 1) of every row among the rows of its product, in
\* df's order.
GroupPos(df) ==
    Column([i \in DOMAIN df |->
        Cardinality({j \in 1..i : df[j].product_id = df[i].product_id})])

\* df.groupby('product_id')[col].shift(k), col given as the sequence of its
\* values: at each row <<value>> of the row k positions earlier in the same
\* product's rows, <<>> (missing) when there is none.
GroupShift(df, col, k) ==
    LET pos == GroupPos(df)
    IN  Column([i \in DOMAIN df |->
            LET earlier == {j \in 1..(i-1) : /\ df[j].product_id = df[i].product_id
                                             /\ pos[j] = pos[i] - k}
            IN  IF earlier = {} THEN <<>> ELSE <<col[CHOOSE j \in earlier : TRUE]>>])

(***************************************************************************)
(* create_reactivation_tracker                                             *)
(***************************************************************************)

\* df['is_declining']
IsDeclining(df) ==
    Column([i \in DOMAIN df |-> IF df[i].trend_label = "Declining" THEN 1 ELSE 0])

\* df['declining_group']: the running count of the rows whose is_declining
\* differs from the previous row of the same product (a product's first row
\* differs from the missing value).
DecliningGroup(df) ==
    LET is_declining == IsDeclining(df)
        shifted == GroupShift(df, is_declining, 1)
        changed == Column([j \in DOMAIN df |->
                      shifted[j] = <<>> \/ shifted[j][1] # is_declining[j]])
    IN  Column([i \in DOMAIN df |-> Cardinality({j \in 1..i : changed[j]})])

\* df.groupby(['product_id', 'declining_group']).cumcount()
CumCount(df, declining_group) ==
    Column([i \in DOMAIN df |->
        Cardinality({j \in 1..(i-1) : /\ df[j].product_id = df[i].product_id
                                      /\ declining_group[j] = declining_group[i]})])

\* A running count of the product's Declining rows that never resets.
WeeksDecliningNoReset(df) ==
    Column([i \in DOMAIN df |->
        IF df[i].trend_label # "Declining" THEN 0
        ELSE Cardinality({j \in 1..i : /\ df[j].product_id = df[i].product_id
                                       /\ df[j].trend_label = "Declining"})])

\* A run length that runs on from the last rows of the product before.
WeeksDecliningAcrossProducts(df) ==
    Column([i \in DOMAIN df |->
        IF df[i].trend_label # "Declining" THEN 0
        ELSE Cardinality({j \in 1..i :
                \A k \in j..i : df[k].trend_label = "Declining"})])

\* df['weeks_declining'] of the table sorted by (product_id, week_start_date)
WeeksDeclining(df) ==
    LET cumcount == CumCount(df, DecliningGroup(df))
    IN  Column([i \in DOMAIN df |->
            IF df[i].trend_label # "Declining" THEN 0 ELSE cumcount[i] + 1])

\* The margin threshold 0.40, in hundredths.
MarginAbove == 40

\* A target test that also takes a margin of exactly 0.40.
IsReactivationTargetInclusive(r) ==
    AtLeastHundredths(r.net_profit_margin, MarginAbove) /\ r.trend_label = "Declining"

\* df['is_reactivation_target']
IsReactivationTarget(r) ==
    GreaterThanHundredths(r.net_profit_margin, MarginAbove) /\ r.trend_label = "Declining"

\* The lag of the baseline, in weekly rows.
BaselineLag == 13

\* A shift by 13 rows of the whole table, whatever the product of the rows.
Baseline90dAvgUngrouped(df) ==
    Column([i \in DOMAIN df |->
        IF i - BaselineLag \in DOMAIN df
        THEN <<df[i - BaselineLag].rolling_90d_avg_sales>> ELSE <<>>])

\* df.groupby('product_id')['rolling_90d_avg_sales'].shift(13)
Baseline90dAvg(df) ==
    GroupShift(df, Column([i \in DOMAIN df |-> df[i].rolling_90d_avg_sales]),
               BaselineLag)

\* (current - baseline) / (baseline + 1e-9) * 100, missing when the
\* baseline is.
VsBaselinePctChange(current, baseline) ==
    IF baseline = <<>> THEN NaN
    ELSE Times(EpsDiv(current - baseline[1], baseline[1]), 100)

\* np.maximum(0, v), for v with a denominator above 0; missing stays missing.
Maximum0(v) ==
    IF IsNaN(v) THEN NaN ELSE IF v.num < 0 THEN Num(0) ELSE v

\* The profit at risk without the clamp at 0.
TotalProfitAtRiskUnclamped(target, baseline, current, gross_profit, units) ==
    IF ~target THEN Num(0)
    ELSE IF baseline = <<>> THEN NaN
    ELSE EpsDiv((baseline[1] - current) * gross_profit, units)

\* np.where(is_reactivation_target,
\*          np.maximum(0, (baseline - current) * gross_profit / (units + 1e-9)),
\*          0)
TotalProfitAtRisk(target, baseline, current, gross_profit, units) ==
    IF ~target THEN Num(0)
    ELSE IF baseline = <<>> THEN NaN
    ELSE Maximum0(EpsDiv((baseline[1] - current) * gross_profit, units))

CreateReactivationTrackerTable(weekly) ==
    LET df == SortValues(weekly, ByProductWeek(weekly))
        weeks_declining == WeeksDeclining(df)
        baseline_90d_avg == Baseline90dAvg(df)
        out == Column([i \in 1..Len(df) |->
                  [week_start_date        |-> df[i].week_start_date,
                   product_id             |-> df[i].product_id,
                   net_profit_margin      |-> df[i].net_profit_margin,
                   trend_label            |-> df[i].trend_label,
                   is_reactivation_target |-> IsReactivationTarget(df[i]),
                   weeks_declining        |-> weeks_declining[i],
                   baseline_90d_avg       |-> baseline_90d_avg[i],
                   current_weekly_sales   |-> df[i].total_units_sold,
                   vs_baseline_pct_change |->
                       VsBaselinePctChange(df[i].total_units_sold, baseline_90d_avg[i]),
                   total_profit_at_risk   |->
                       TotalProfitAtRisk(IsReactivationTarget(df[i]), baseline_90d_avg[i],
                                         df[i].total_units_sold, df[i].gross_profit,
                                         df[i].total_units_sold)]])
    IN  SortValues(out, ByWeekProduct(out))

(***************************************************************************)
(* create_kpi_dashboard: the reactivation rate                             *)
(***************************************************************************)

\* df['trend_label']
TrendLabelOf(df) == Column([i \in DOMAIN df |-> df[i].trend_label])

\* A shift over the whole table, ignoring the product boundaries.
PrevTrendAnyProduct(df) ==
    Column([i \in DOMAIN df |-> IF i = 1 THEN <<>> ELSE <<df[i-1].trend_label>>])

\* reactivation_tracker_sorted.groupby('product_id')['trend_label'].shift(1)
PrevTrend(df) == GroupShift(df, TrendLabelOf(df), 1)

\* reactivation_tracker_sorted['reactivated']
Reactivated(df, prev_trend) ==
    Column([i \in DOMAIN df |->
        IF /\ prev_trend[i] = <<"Declining">>
           /\ df[i].trend_label \in {"Growing", "Plateau"}
        THEN 1 ELSE 0])

\* The local table reactivation_tracker_sorted with its two added columns.
SortedTrackerTable(tracker) ==
    LET df == SortValues(tracker, ByProductWeek(tracker))
        prev_trend == PrevTrend(df)
        reactivated == Reactivated(df, prev_trend)
    IN  Column([i \in 1..Len(df) |->
            [week_start_date |-> df[i].week_start_date,
             product_id      |-> df[i].product_id,
             trend_label     |-> df[i].trend_label,
             prev_trend      |-> prev_trend[i],
             reactivated     |-> reactivated[i]]])

WeeksIn(df) == {df[i].week_start_date : i \in DOMAIN df}

\* reactivation_weekly['products_reactivated'] of week w
ProductsReactivated(sorted, w) ==
    Cardinality({i \in DOMAIN sorted : /\ sorted[i].week_start_date = w
                                       /\ sorted[i].reactivated = 1})

\* reactivation_weekly['products_previously_declining'] of week w
ProductsPreviouslyDeclining(sorted, w) ==
    Cardinality({i \in DOMAIN sorted : /\ sorted[i].week_start_date = w
                                       /\ sorted[i].prev_trend = <<"Declining">>})

\* The rate taken over every tracker row of the week.
ReactivationRateOverAllRows(sorted, w) ==
    Times(EpsDiv(ProductsReactivated(sorted, w),
                 Cardinality({i \in DOMAIN sorted : sorted[i].week_start_date = w})),
          100)

\* reactivation_weekly['reactivation_rate'] of week w
ReactivationRate(sorted, w) ==
    Times(EpsDiv(ProductsReactivated(sorted, w),
                 ProductsPreviouslyDeclining(sorted, w)),
          100)

\* weekly_metrics.merge(reactivation_weekly, how='left'): the rate of week w,
\* missing when the tracker has no row of that week.
MergedRate(sorted, w) ==
    IF w \in WeeksIn(sorted) THEN ReactivationRate(sorted, w) ELSE NaN

\* The merged rate left as the merge gave it.
KpiReactivationRateNoFill(sorted, w) == MergedRate(sorted, w)

\* weekly_metrics['reactivation_rate'].fillna(0)
KpiReactivationRate(sorted, w) == FillNa(MergedRate(sorted, w), 0)

\* weekly_metrics['declining_product_count'], merged and filled with 0
DecliningProductCount(tracker, w) ==
    Cardinality({i \in DOMAIN tracker : /\ tracker[i].week_start_date = w
                                        /\ tracker[i].trend_label = "Declining"})

\* The elements of a set of integers in ascending order.
Ascending(S) ==
    Column([k \in 1..Cardinality(S) |->
        CHOOSE x \in S : Cardinality({y \in S : y < x}) = k - 1])

\* The kpi_dashboard table: one row per week of featured_data, ascending.
KpiDashboardTable(weeks, tracker, sorted) ==
    LET ws == Ascending(weeks)
    IN  Column([k \in DOMAIN ws |->
            [week_start_date         |-> ws[k],
             reactivation_rate       |-> KpiReactivationRate(sorted, ws[k]),
             declining_product_count |-> DecliningProductCount(tracker, ws[k])]])

(***************************************************************************)
(* SpecTrack: weekly_product -> reactivation_tracker -> kpi_dashboard      *)
(***************************************************************************)

MaxWeeks == 3

TrackProducts == {1, 2}

Labels == {"Declining", "Plateau", "Growing"}

\* The weeks of the bucketing that hold 2025-01-06, 2025-01-13, ...
TrackWeeks == {WeekStartDate(20094 + 7 * k) : k \in 0..(MaxWeeks - 1)}

\* The rows f gives the keys (week, product), in key order; a key that f
\* sends to "absent" has no row.  Every row sells 1 unit at a profit of 1,
\* with a margin of 0.45 and a 90-day average of 1.
RECURSIVE TableOf(_, _)
TableOf(f, keys) ==
    IF keys = <<>> THEN <<>>
    ELSE LET x == Head(keys)
             rest == TableOf(f, Tail(keys))
         IN  IF f[x] = "absent" THEN rest
             ELSE <<[week_start_date |-> x[1], product_id |-> x[2],
                     trend_label |-> f[x],
                     net_profit_margin |-> Hundredths(45),
                     total_units_sold |-> 1,
                     gross_profit |-> 1,
                     rolling_90d_avg_sales |-> 1]>> \o rest

\* Every key (week, product) of the model, in ascending order.
TrackKeys ==
    LET keyset == TrackWeeks \X TrackProducts
    IN  Column([k \in 1..Cardinality(keyset) |->
            CHOOSE x \in keyset :
                Cardinality({y \in keyset : KeyLess(y, x)}) = k - 1])

\* weekly_product is any table with at most one row per (week, product),
\* in (week_start_date, product_id) order as
\* create_weekly_product_performance returns it; featured_data holds rows
\* of every week of weekly_product, and possibly of more weeks.
InitTrack ==
    /\ pc = "weekly"
    /\ \E f \in [TrackWeeks \X TrackProducts -> Labels \cup {"absent"}] :
          /\ weekly_product = TableOf(f, TrackKeys)
          /\ featured_weeks
                \in {TrackWeeks,
                     {x[1] : x \in {y \in TrackWeeks \X TrackProducts : f[y] # "absent"}}}
    /\ reactivation_tracker = <<>>
    /\ reactivation_tracker_sorted = <<>>
    /\ kpi_dashboard = <<>>
    /\ IdleBucket
    /\ IdleService
    /\ IdleAgg
    /\ IdleMain
    /\ IdleLabel
    /\ IdleFeat
    /\ IdleRun

\* reactivation_tracker = create_reactivation_tracker(weekly_product)
CreateReactivationTracker ==
    /\ pc = "weekly"
    /\ reactivation_tracker' = CreateReactivationTrackerTable(weekly_product)
    /\ pc' = "tracker"
    /\ UNCHANGED <<weekly_product, featured_weeks, reactivation_tracker_sorted,
                   kpi_dashboard, bucketVars, serviceVars, aggVars, mainVars, labelVars, featVars, runVars>>

\* kpi_dashboard = create_kpi_dashboard(featured_data, calendar_events,
\*                                      reactivation_tracker)
CreateKpiDashboard ==
    /\ pc = "tracker"
    /\ reactivation_tracker_sorted' = SortedTrackerTable(reactivation_tracker)
    /\ kpi_dashboard' = KpiDashboardTable(featured_weeks, reactivation_tracker,
                                          reactivation_tracker_sorted')
    /\ pc' = "kpi"
    /\ UNCHANGED <<weekly_product, featured_weeks, reactivation_tracker,
                   bucketVars, serviceVars, aggVars, mainVars, labelVars, featVars, runVars>>

NextTrack == CreateReactivationTracker \/ CreateKpiDashboard

SpecTrack == InitTrack /\ [][NextTrack]_vars

\* What the claims speak of, read off the tables as sets of rows.
RowSet(df) == {df[i] : i \in DOMAIN df}

RowsOfProduct(df, p) == {r \in RowSet(df) : r.product_id = p}

\* The product's row of the latest week before r's week, if any.
PrecedingRows(df, r) ==
    {q \in RowsOfProduct(df, r.product_id) :
        /\ q.week_start_date < r.week_start_date
        /\ \A z \in RowsOfProduct(df, r.product_id) :
              z.week_start_date < r.week_start_date
                  => z.week_start_date <= q.week_start_date}

\* The number of consecutive Declining rows of r's product that end at r.
DecliningRunEndingAt(df, r) ==
    Cardinality({q \in RowsOfProduct(df, r.product_id) :
        /\ q.week_start_date <= r.week_start_date
        /\ \A z \in RowsOfProduct(df, r.product_id) :
              (q.week_start_date <= z.week_start_date
                  /\ z.week_start_date <= r.week_start_date)
                  => z.trend_label = "Declining"})

\* C3: weeks_declining is the length of the run of consecutive Declining
\* rows of the product that ends at the row, and 0 on a row that is not
\* Declining.
C3_WeeksDecliningIsRunLength ==
    pc \in {"tracker", "kpi"} =>
        /\ Len(reactivation_tracker) = Len(weekly_product)
        /\ \A r \in RowSet(reactivation_tracker) :
              /\ r.weeks_declining = DecliningRunEndingAt(reactivation_tracker, r)
              /\ (r.trend_label # "Declining" => r.weeks_declining = 0)

\* A product with labels D, P, D (weeks_declining 1, 0, 1) beside a product
\* with a run of two Declining weeks, the second of them counted 2.
C3_Witness ==
    /\ pc = "tracker"
    /\ \E r \in RowSet(reactivation_tracker) : r.weeks_declining = 2
    /\ \E r \in RowSet(reactivation_tracker) :
          /\ r.weeks_declining = 1
          /\ \E q \in PrecedingRows(reactivation_tracker, r) :
                /\ q.trend_label = "Plateau" /\ q.weeks_declining = 0
                /\ \E z \in PrecedingRows(reactivation_tracker, q) :
                      z.weeks_declining = 1

\* C4: a row is counted as reactivated exactly when the product's
\* immediately preceding weekly row is Declining and the row itself is
\* Growing or Plateau; a product's first row is never counted.
C4_ReactivatedIffPrevDeclining ==
    pc = "kpi" =>
        /\ Len(reactivation_tracker_sorted) = Len(reactivation_tracker)
        /\ \A r \in RowSet(reactivation_tracker_sorted) :
              /\ r.reactivated \in {0, 1}
              /\ r.reactivated = 1 <=>
                    /\ \E q \in PrecedingRows(reactivation_tracker_sorted, r) :
                          q.trend_label = "Declining"
                    /\ r.trend_label \in {"Growing", "Plateau"}
              /\ PrecedingRows(reactivation_tracker_sorted, r) = {}
                    => r.reactivated = 0

\* A reactivated row, and a product whose first row is Plateau or Growing
\* and follows another product's Declining last row in the sorted table.
C4_Witness ==
    /\ pc = "kpi"
    /\ \E r \in RowSet(reactivation_tracker_sorted) : r.reactivated = 1
    /\ \E i \in DOMAIN reactivation_tracker_sorted :
          /\ i > 1
          /\ reactivation_tracker_sorted[i].product_id
                # reactivation_tracker_sorted[i-1].product_id
          /\ reactivation_tracker_sorted[i-1].trend_label = "Declining"
          /\ reactivation_tracker_sorted[i].trend_label \in {"Growing", "Plateau"}
          /\ reactivation_tracker_sorted[i].reactivated = 0

KpiRows == RowSet(kpi_dashboard)

\* The products reactivated in week w: Declining in their preceding weekly
\* row, Growing or Plateau in week w.
ReactivatedProducts(w) ==
    {r.product_id : r \in {x \in RowSet(reactivation_tracker) :
        /\ x.week_start_date = w
        /\ x.trend_label \in {"Growing", "Plateau"}
        /\ \E q \in PrecedingRows(reactivation_tracker, x) :
              q.trend_label = "Declining"}}

\* The products with a row in week w whose preceding weekly row is Declining.
PreviouslyDecliningProducts(w) ==
    {r.product_id : r \in {x \in RowSet(reactivation_tracker) :
        /\ x.week_start_date = w
        /\ \E q \in PrecedingRows(reactivation_tracker, x) :
              q.trend_label = "Declining"}}

\* C5 as stated: the rate is reactivated / previously-declining, a ratio
\* between 0 and 1.
C5_RateIsRatioZeroToOne ==
    pc = "kpi" =>
        \A k \in KpiRows :
            /\ ValLeq(k.reactivation_rate, 1)
            /\ PreviouslyDecliningProducts(k.week_start_date) # {}
                  => ValEq(k.reactivation_rate,
                           EpsDiv(Cardinality(ReactivatedProducts(k.week_start_date)),
                                  Cardinality(PreviouslyDecliningProducts(k.week_start_date))))

\* C5 (amended): the rate is a percentage,
\* 100 * reactivated / (previously-declining + 1e-9), between 0 and 100,
\* the denominator counting every product whose previous row was Declining.
C5_RateIsPercentOfPreviouslyDeclining ==
    pc = "kpi" =>
        \A k \in KpiRows :
            /\ k.reactivation_rate.num >= 0
            /\ ValLeq(k.reactivation_rate, 100)
            /\ ValEq(k.reactivation_rate,
                     Times(EpsDiv(Cardinality(ReactivatedProducts(k.week_start_date)),
                                  Cardinality(PreviouslyDecliningProducts(k.week_start_date))),
                           100))

\* A week in which one of two previously Declining products is reactivated.
C5_Witness ==
    /\ pc = "kpi"
    /\ \E k \in KpiRows :
          /\ Cardinality(PreviouslyDecliningProducts(k.week_start_date)) = 2
          /\ Cardinality(ReactivatedProducts(k.week_start_date)) = 1
          /\ k.reactivation_rate = [num |-> 100, den |-> 2, eps |-> 1]

\* C6: in a week of kpi_dashboard with no previously Declining product
\* (also a week with no tracker row at all) the rate is exactly 0, never
\* missing.
C6_RateZeroWithoutPreviouslyDeclining ==
    pc = "kpi" =>
        \A k \in KpiRows :
            PreviouslyDecliningProducts(k.week_start_date) = {}
                => /\ ~IsNaN(k.reactivation_rate)
                   /\ k.reactivation_rate.num = 0

\* A dashboard with a week that has no tracker row and a week whose tracker
\* rows have no Declining predecessor.
C6_Witness ==
    /\ pc = "kpi"
    /\ \E k \in KpiRows :
          /\ k.week_start_date \notin WeeksIn(reactivation_tracker)
          /\ k.reactivation_rate = Num(0)
    /\ \E k \in KpiRows :
          /\ k.week_start_date \in WeeksIn(reactivation_tracker)
          /\ PreviouslyDecliningProducts(k.week_start_date) = {}
          /\ k.reactivation_rate = [num |-> 0, den |-> 0, eps |-> 1]

\* The weekly rows of product p alone, in the order of weekly_product.
OwnRows(p) == SelectSeq(weekly_product, LAMBDA w : w.product_id = p)

\* C24: the weeks_declining of a product's rows are those the product's
\* rows alone would get, whatever rows the other products have; and a
\* product's first row, when Declining, has weeks_declining 1.
C24_WeeksDecliningOwnProductOnly ==
    pc \in {"tracker", "kpi"} =>
        \A r \in RowSet(reactivation_tracker) :
            /\ \E q \in RowSet(CreateReactivationTrackerTable(OwnRows(r.product_id))) :
                  /\ q.week_start_date = r.week_start_date
                  /\ q.weeks_declining = r.weeks_declining
            /\ (PrecedingRows(reactivation_tracker, r) = {} /\ r.trend_label = "Declining")
                  => r.weeks_declining = 1

\* Product 1 is Declining in all its three weeks (1, 2, 3) and product 2,
\* which follows it in the run-length pass, starts Declining in the second
\* week with weeks_declining 1.
C24_Witness ==
    /\ pc = "tracker"
    /\ Cardinality(RowsOfProduct(reactivation_tracker, 1)) = 3
    /\ \A r \in RowsOfProduct(reactivation_tracker, 1) : r.trend_label = "Declining"
    /\ \E r \in RowsOfProduct(reactivation_tracker, 1) : r.weeks_declining = 3
    /\ Cardinality(RowsOfProduct(reactivation_tracker, 2)) = 2
    /\ \E r \in RowsOfProduct(reactivation_tracker, 2) :
          /\ PrecedingRows(reactivation_tracker, r) = {}
          /\ r.trend_label = "Declining"
          /\ r.weeks_declining = 1

(***************************************************************************)
(* SpecBase: create_reactivation_tracker over histories longer than the    *)
(* baseline lag                                                            *)
(***************************************************************************)

MaxHistory == 15

BaseProducts == {1, 2}

\* The k-th calendar week of the histories (k from 1).
BaseWeek(k) == WeekStartDate(20094 + 7 * (k - 1))

\* The weekly row of product p in week k.  The 90-day average starts from b and
\* changes from week to week.  A row of the first 13 weeks sells 1 unit at a
\* profit of 1 with margin 0.45, and is Declining in the odd weeks; a later
\* row is the record late.
BaseRow(p, k, b, late) ==
    [week_start_date |-> BaseWeek(k), product_id |-> p,
     rolling_90d_avg_sales |-> b + (k % 3)]
    @@ (IF k <= 13
        THEN [trend_label |-> IF k % 2 = 1 THEN "Declining" ELSE "Plateau",
              net_profit_margin |-> Hundredths(45), total_units_sold |-> 1,
              gross_profit |-> 1]
        ELSE late)

\* The weekly table of the products' histories, in (week_start_date,
\* product_id) order: product p has a row in each of the weeks 1..n[p] but
\* the week skip[p], a week without sales (0: no such week).
BaseTable(n, b, late, skip) ==
    LET keyset == {x \in (1..MaxHistory) \X BaseProducts :
                      x[1] <= n[x[2]] /\ x[1] # skip[x[2]]}
        keys == Column([k \in 1..Cardinality(keyset) |->
                   CHOOSE x \in keyset :
                       Cardinality({y \in keyset : KeyLess(y, x)}) = k - 1])
    IN  Column([i \in DOMAIN keys |->
            BaseRow(keys[i][2], keys[i][1], b[keys[i][2]], late[keys[i][2]])])

\* The rows a product may have after its first 13 weeks: product 1 any of
\* these, product 2 a Plateau row of 1 unit at a profit of 1.
LateRows ==
    [trend_label : {"Declining", "Growing"},
     net_profit_margin : {Hundredths(40), Hundredths(45)},
     total_units_sold : {1, 2, 4}, gross_profit : {-2, 0, 2}]

InitBase ==
    /\ pc = "weekly"
    /\ \E n \in [BaseProducts -> (MaxHistory - 2)..MaxHistory],
          b \in [BaseProducts -> 0..2],
          late1 \in LateRows,
          skip1 \in {0, 3} :
          weekly_product =
              BaseTable(n, b,
                        [p \in BaseProducts |->
                            IF p = 1 THEN late1
                            ELSE [trend_label |-> "Plateau",
                                  net_profit_margin |-> Hundredths(45),
                                  total_units_sold |-> 1, gross_profit |-> 1]],
                        [p \in BaseProducts |-> IF p = 1 THEN skip1 ELSE 0])
    /\ featured_weeks = {}
    /\ reactivation_tracker = <<>>
    /\ reactivation_tracker_sorted = <<>>
    /\ kpi_dashboard = <<>>
    /\ IdleBucket
    /\ IdleService
    /\ IdleAgg
    /\ IdleMain
    /\ IdleLabel
    /\ IdleFeat
    /\ IdleRun

NextBase == CreateReactivationTracker

SpecBase == InitBase /\ [][NextBase]_vars

\* The weekly_product row behind the tracker row r.
WeeklyRowOf(r) ==
    CHOOSE w \in RowSet(weekly_product) :
        w.week_start_date = r.week_start_date /\ w.product_id = r.product_id

\* C12: on a reactivation target with a present baseline,
\* total_profit_at_risk = max(0, baseline_90d_avg - current_weekly_sales)
\* * gross_profit / (total_units_sold + 1e-9): the shortfall is clamped at
\* 0 before it is multiplied by the profit per unit.
C12_ClampOnShortfall ==
    pc = "tracker" =>
        \A r \in RowSet(reactivation_tracker) :
            (r.is_reactivation_target /\ r.baseline_90d_avg # <<>>) =>
                LET w == WeeklyRowOf(r)
                    shortfall == r.baseline_90d_avg[1] - r.current_weekly_sales
                    clamped == IF shortfall > 0 THEN shortfall ELSE 0
                IN  ValEq(r.total_profit_at_risk,
                          Times(EpsDiv(w.gross_profit, w.total_units_sold), clamped))

\* C13: total_profit_at_risk is never a negative number, and it is exactly
\* 0 on every row that is not a reactivation target, with or without a
\* baseline.
C13_ProfitAtRiskNeverNegative ==
    pc = "tracker" =>
        \A r \in RowSet(reactivation_tracker) :
            /\ IsNaN(r.total_profit_at_risk)
                  \/ (r.total_profit_at_risk.num >= 0 /\ r.total_profit_at_risk.den >= 0)
            /\ ~(100 * WeeklyRowOf(r).net_profit_margin.num
                        > 40 * WeeklyRowOf(r).net_profit_margin.den
                    /\ WeeklyRowOf(r).trend_label = "Declining")
                  => r.total_profit_at_risk = [num |-> 0, den |-> 1, eps |-> 0]

\* A target row whose product (baseline - current) * gross_profit is
\* negative and carries 0, beside a non-target row without a baseline and a
\* non-target row with one, both carrying 0.
C13_Witness ==
    /\ pc = "tracker"
    /\ \E r \in RowSet(reactivation_tracker) :
          /\ r.is_reactivation_target /\ r.baseline_90d_avg # <<>>
          /\ (r.baseline_90d_avg[1] - r.current_weekly_sales)
                 * WeeklyRowOf(r).gross_profit < 0
          /\ r.total_profit_at_risk = [num |-> 0, den |-> 1, eps |-> 0]
    /\ \E r \in RowSet(reactivation_tracker) :
          /\ ~r.is_reactivation_target /\ r.baseline_90d_avg = <<>>
          /\ r.total_profit_at_risk = [num |-> 0, den |-> 1, eps |-> 0]
    /\ \E r \in RowSet(reactivation_tracker) :
          /\ ~r.is_reactivation_target /\ r.baseline_90d_avg # <<>>
          /\ r.baseline_90d_avg[1] > r.current_weekly_sales
          /\ r.total_profit_at_risk = [num |-> 0, den |-> 1, eps |-> 0]

\* The position (from 1) of the tracker row r among its product's rows in
\* ascending week order.
HistoryRank(r) ==
    Cardinality({q \in RowsOfProduct(reactivation_tracker, r.product_id) :
                    q.week_start_date <= r.week_start_date})

\* C14: the first 13 rows of every product have no baseline_90d_avg and no
\* vs_baseline_pct_change; from the 14th row on baseline_90d_avg is the
\* rolling_90d_avg_sales of the same product's row 13 positions earlier.
C14_BaselineIsOwnRowThirteenBack ==
    pc = "tracker" =>
        \A r \in RowSet(reactivation_tracker) :
            IF HistoryRank(r) <= 13
            THEN r.baseline_90d_avg = <<>> /\ IsNaN(r.vs_baseline_pct_change)
            ELSE \E q \in RowsOfProduct(reactivation_tracker, r.product_id) :
                    /\ HistoryRank(q) = HistoryRank(r) - 13
                    /\ r.baseline_90d_avg = <<WeeklyRowOf(q).rolling_90d_avg_sales>>
                    /\ ~IsNaN(r.vs_baseline_pct_change)

\* Product 1 has 15 rows and product 2 has 13: product 1's 14th row takes
\* the 90-day average of its own first row, which differs from product 2's,
\* and product 2's 13th row has no baseline.
C14_Witness ==
    /\ pc = "tracker"
    /\ \E r, q, o \in RowSet(reactivation_tracker) :
          /\ r.product_id = 1 /\ HistoryRank(r) = 14
          /\ q.product_id = 1 /\ HistoryRank(q) = 1
          /\ o.product_id = 2 /\ HistoryRank(o) = 1
          /\ r.baseline_90d_avg = <<WeeklyRowOf(q).rolling_90d_avg_sales>>
          /\ WeeklyRowOf(o).rolling_90d_avg_sales # WeeklyRowOf(q).rolling_90d_avg_sales
    /\ \E r \in RowSet(reactivation_tracker) :
          /\ r.product_id = 2 /\ HistoryRank(r) = 13
          /\ r.baseline_90d_avg = <<>>
          /\ Cardinality(RowsOfProduct(reactivation_tracker, 2)) = 13

\* C25: baseline_90d_avg of a row of week w is the rolling_90d_avg_sales of
\* the same product's row of the week 91 days before w (missing when the
\* product has no such row), also for a product with a week without sales.
C25_BaselineIsWeekNinetyOneDaysBefore ==
    pc = "tracker" =>
        \A r \in RowSet(reactivation_tracker) :
            LET earlier == {q \in RowsOfProduct(reactivation_tracker, r.product_id) :
                               q.week_start_date = r.week_start_date - 91}
            IN  IF earlier = {} THEN r.baseline_90d_avg = <<>>
                ELSE \E q \in earlier :
                        r.baseline_90d_avg = <<WeeklyRowOf(q).rolling_90d_avg_sales>>

\* C21: is_reactivation_target is true exactly on the rows with
\* net_profit_margin > 0.40 and trend_label Declining; every target row has
\* weeks_declining >= 1, and weeks_declining > 0 exactly on the Declining
\* rows.
C21_TargetIffHighMarginDeclining ==
    pc = "tracker" =>
        \A r \in RowSet(reactivation_tracker) :
            /\ r.is_reactivation_target
                  <=> (/\ 100 * r.net_profit_margin.num > 40 * r.net_profit_margin.den
                       /\ r.trend_label = "Declining")
            /\ r.is_reactivation_target => r.weeks_declining >= 1
            /\ r.weeks_declining > 0 <=> r.trend_label = "Declining"

\* A Declining row with margin exactly 0.40 that is no target though its
\* weeks_declining is 1, beside a Declining target row with margin 0.45 and
\* a Plateau row with margin 0.45 and weeks_declining 0.
C21_Witness ==
    /\ pc = "tracker"
    /\ \E r, q, o \in RowSet(reactivation_tracker) :
          /\ r.net_profit_margin = Hundredths(40) /\ r.trend_label = "Declining"
          /\ ~r.is_reactivation_target /\ r.weeks_declining >= 1
          /\ q.net_profit_margin = Hundredths(45) /\ q.trend_label = "Declining"
          /\ q.is_reactivation_target /\ q.weeks_declining >= 1
          /\ o.net_profit_margin = Hundredths(45) /\ o.trend_label = "Plateau"
          /\ ~o.is_reactivation_target /\ o.weeks_declining = 0

(***************************************************************************)
(* Trend labels: calculate_trend_labels (features.py) and the relabelling  *)
(* of the weekly rows in create_weekly_product_performance.                *)
(***************************************************************************)

\* The thresholds 0.95 and 1.05, in hundredths.
DecliningBelow == 95

GrowingFrom == 105

\* v < h / 100, for a quotient v of naturals and 0 < h < 10^7: with the
\* 1e-9 guard in v's denominator, equality of the integer parts is "less".
\* A mean of quotients is compared exactly.
LessThanHundredths(v, h) ==
    IF "mean_of" \in DOMAIN v THEN RatLessThanHundredths(MeanRat(v.mean_of), h)
    ELSE IF v.eps > 0 THEN 100 * v.num <= h * v.den ELSE 100 * v.num < h * v.den

\* np.where(ratio < 0.95, 'Declining',
\*          np.where(ratio < 1.05, 'Plateau', 'Growing'))   (features.py)
TrendLabel(ratio) ==
    IF LessThanHundredths(ratio, DecliningBelow) THEN "Declining"
    ELSE IF LessThanHundredths(ratio, GrowingFrom) THEN "Plateau"
    ELSE "Growing"

\* calculate_trend_labels(df): the columns trend_ratio and trend_label added.
CalculateTrendLabelsTable(t) ==
    LET trend_ratio == Column([i \in DOMAIN t |->
            EpsDiv(t[i].rolling_30d_avg_sales, t[i].rolling_90d_avg_sales)])
    IN  Column([i \in DOMAIN t |->
            t[i] @@ [trend_ratio |-> trend_ratio[i],
                     trend_label |-> TrendLabel(trend_ratio[i])]])

\* A relabelling whose bands take their upper ends in.
WeeklyTrendLabelInclusive(ratio) ==
    IF 100 * ratio.num <= DecliningBelow * ratio.den THEN "Declining"
    ELSE IF 100 * ratio.num <= GrowingFrom * ratio.den THEN "Plateau"
    ELSE "Growing"

\* np.where(weekly['trend_ratio'] < 0.95, 'Declining',
\*          np.where(weekly['trend_ratio'] < 1.05, 'Plateau', 'Growing'))
WeeklyTrendLabel(ratio) ==
    IF LessThanHundredths(ratio, DecliningBelow) THEN "Declining"
    ELSE IF LessThanHundredths(ratio, GrowingFrom) THEN "Plateau"
    ELSE "Growing"

\* 'trend_ratio': 'mean' over the daily ratios of a group, the daily ratios
\* given in hundredths.
MeanOfHundredths(ratios) == [num |-> Sum(ratios), den |-> 100 * Len(ratios), eps |-> 0]

\* weekly['trend_label'] = np.where(...)
RelabelWeeklyTable(t) ==
    Column([i \in DOMAIN t |-> t[i] @@ [trend_label |-> WeeklyTrendLabel(t[i].trend_ratio)]])

(***************************************************************************)
(* create_weekly_product_performance                                       *)
(*                                                                         *)
(* A column that a left merge may leave empty holds <<>> (missing) or      *)
(* <<value>>.                                                              *)
(***************************************************************************)

\* df.merge(calendar_events[['date', 'event_name', 'event_category',
\*                           'seasonal_event_flag']],
\*          left_on='order_date', right_on='date', how='left'):
\* one row per matching calendar row, one row with missing event columns
\* for a date the calendar does not hold.
MergeCalendar(df, calendar) ==
    Flatten([i \in DOMAIN df |->
        LET SameDate(c) == c.date = df[i].order_date
            found == SelectSeq(calendar, SameDate)
        IN  IF found = <<>>
            THEN <<df[i] @@ [event_name |-> <<>>, event_category |-> <<>>,
                             seasonal_event_flag |-> <<>>]>>
            ELSE [k \in DOMAIN found |->
                    df[i] @@ [event_name          |-> <<found[k].event_name>>,
                              event_category      |-> <<found[k].event_category>>,
                              seasonal_event_flag |-> <<found[k].seasonal_event_flag>>]]])

\* df.merge(product_brands, on='product_id', how='left')
MergeBrands(df, brands) ==
    Flatten([i \in DOMAIN df |->
        LET SameProduct(b) == b.product_id = df[i].product_id
            found == SelectSeq(brands, SameProduct)
        IN  IF found = <<>>
            THEN <<df[i] @@ [brand_name |-> <<>>]>>
            ELSE [k \in DOMAIN found |->
                    df[i] @@ [brand_name |-> <<found[k].brand_name>>]]])

\* The group key of a row: week_start_date, product_id, category_name,
\* brand_name.
GroupKey(r) ==
    <<WeekStartDate(r.order_date), r.product_id, r.category_name, r.brand_name>>

\* df.groupby(keys) leaves out every row with a missing key (dropna=True).
GroupedRows(df) ==
    LET HasKey(r) == r.brand_name # <<>>
    IN  SelectSeq(df, HasKey)

\* 'seasonal_event_flag': 'max', the missing values skipped.
MaxFlag(flags) ==
    IF \E i \in DOMAIN flags : flags[i] = <<TRUE>> THEN <<TRUE>>
    ELSE IF \E i \in DOMAIN flags : flags[i] = <<FALSE>> THEN <<FALSE>>
    ELSE <<>>

\* The weekly row of one group: the group's rows aggregated by agg_dict,
\* with the week metadata aggregate_to_weekly adds.
WeeklyRow(key, rows) ==
    LET promo_count == Len(SelectSeq(rows, LAMBDA r : r.promo_id # <<>>))
    IN  [week_start_date     |-> key[1],
         week_end_date       |-> key[1] + 6,
         product_id          |-> key[2],
         category_name       |-> key[3],
         brand_name          |-> key[4],
         total_units_sold    |-> Sum([i \in DOMAIN rows |-> rows[i].total_units_sold]),
         gross_revenue       |-> Sum([i \in DOMAIN rows |-> rows[i].gross_revenue]),
         gross_profit        |-> Sum([i \in DOMAIN rows |-> rows[i].gross_profit]),
         net_profit_margin   |->
             [mean_of |-> [i \in DOMAIN rows |-> rows[i].net_profit_margin]],
         rolling_30d_avg_sales |->
             [num |-> Sum([i \in DOMAIN rows |-> rows[i].rolling_30d_avg_sales]),
              den |-> Len(rows), eps |-> 0],
         rolling_90d_avg_sales |->
             [num |-> Sum([i \in DOMAIN rows |-> rows[i].rolling_90d_avg_sales]),
              den |-> Len(rows), eps |-> 0],
         trend_ratio         |-> [mean_of |-> [i \in DOMAIN rows |-> rows[i].trend_ratio]],
         seasonal_event_flag |-> MaxFlag([i \in DOMAIN rows |-> rows[i].seasonal_event_flag]),
         has_promotion       |-> promo_count > 0,
         promo_count         |-> promo_count]

\* aggregate_to_weekly(df, ['product_id', 'category_name', 'brand_name'],
\* agg_dict): one row per group present, in key order.
AggregateToWeekly(df) ==
    LET kept == GroupedRows(df)
        keys == {GroupKey(kept[i]) : i \in DOMAIN kept}
        RowsOfKey(key) == SelectSeq(kept, LAMBDA r : GroupKey(r) = key)
        rows == {WeeklyRow(key, RowsOfKey(key)) : key \in keys}
    IN  Column([k \in 1..Cardinality(rows) |->
            CHOOSE r \in rows :
                Cardinality({q \in rows :
                    KeyLess(<<q.week_start_date, q.product_id>>,
                            <<r.week_start_date, r.product_id>>)}) = k - 1])

\* The table create_weekly_product_performance writes and returns.
WeeklyProductPerformanceTable(featured, calendar, brands) ==
    LET weekly == RelabelWeeklyTable(
                      AggregateToWeekly(MergeBrands(MergeCalendar(featured, calendar), brands)))
    IN  SortValues(weekly, ByWeekProduct(weekly))

(***************************************************************************)
(* SpecAgg: featured_data -> weekly_product_performance                    *)
(***************************************************************************)

MaxUnits == 2

AggProducts == {1, 2}

\* Monday 2025-01-06, Tuesday 2025-01-07 and Monday 2025-01-13.
AggDates == {20094, 20095, 20101}

\* The day of the model's seasonal event: the Tuesday.
EventDate == CHOOSE d \in AggDates : Weekday(d) = 1

CategoryOf(p) == IF p = 1 THEN "Toys" ELSE "Treats"

BrandOf(p) == IF p = 1 THEN "Kong" ELSE "Purina"

\* The rolling averages <<30-day, 90-day>> of a product's row of date d: a
\* "steady" product has 10 and 10 on every day; a "swing" product has 8 and
\* 12 on the Tuesday, 12 and 8 on the Monday after, 10 and 10 otherwise.
RollingOf(profile, d) ==
    IF profile = "steady" \/ d < EventDate THEN <<10, 10>>
    ELSE IF d = EventDate THEN <<8, 12>>
    ELSE <<12, 8>>

RECURSIVE FeaturedOf(_, _, _)
\* The daily rows u gives the keys (product, date), in key order; a key with
\* 0 units has no row.  The rows of the event day are promotion rows.  A
\* unit of product p sells for 1 + p at a profit of 1.  The trend_ratio,
\* trend_label and net_profit_margin of a row are those that
\* calculate_trend_labels and calculate_net_profit_margin give it.
FeaturedOf(u, profile, keys) ==
    IF keys = <<>> THEN <<>>
    ELSE LET x == Head(keys)
             rest == FeaturedOf(u, profile, Tail(keys))
             rolling == RollingOf(profile[x[1]], x[2])
         IN  IF u[x] = 0 THEN rest
             ELSE <<[product_id       |-> x[1],
                     category_name    |-> CategoryOf(x[1]),
                     promo_id         |-> IF x[2] = EventDate THEN <<1>> ELSE <<>>,
                     order_date       |-> x[2],
                     total_units_sold |-> u[x],
                     gross_revenue    |-> (1 + x[1]) * u[x],
                     gross_profit     |-> u[x],
                     net_profit_margin |-> EpsDiv(u[x], (1 + x[1]) * u[x]),
                     rolling_30d_avg_sales |-> rolling[1],
                     rolling_90d_avg_sales |-> rolling[2],
                     trend_ratio      |-> EpsDiv(rolling[1], rolling[2]),
                     trend_label      |-> TrendLabel(EpsDiv(rolling[1], rolling[2]))]>>
                 \o rest

\* Every key (product, date) of the model, in ascending order.
AggKeys ==
    LET keyset == AggProducts \X AggDates
    IN  Column([k \in 1..Cardinality(keyset) |->
            CHOOSE x \in keyset :
                Cardinality({y \in keyset : KeyLess(y, x)}) = k - 1])

\* featured_data has at most one row per (product, date); calendar_events at
\* most one row per date and product_brands at most one row per product,
\* and either may lack a date or a product of featured_data.
InitAgg ==
    /\ pc = "loaded"
    /\ \E u \in [AggProducts \X AggDates -> 0..MaxUnits],
          profile \in {f \in [AggProducts -> {"steady", "swing"}] : f[1] = "steady"} :
          featured_data = FeaturedOf(u, profile, AggKeys)
    /\ \E ds \in SUBSET AggDates :
          calendar_events =
              LET dates == Ascending(ds)
              IN  [k \in DOMAIN dates |->
                      [date |-> dates[k],
                       event_name |-> IF dates[k] = EventDate THEN "Sale" ELSE "None",
                       event_category |-> IF dates[k] = EventDate THEN "Retail" ELSE "None",
                       seasonal_event_flag |-> dates[k] = EventDate]]
    /\ \E ps \in SUBSET AggProducts :
          product_brands =
              LET ids == Ascending(ps)
              IN  [k \in DOMAIN ids |->
                      [product_id |-> ids[k], brand_name |-> BrandOf(ids[k])]]
    /\ weekly_metrics = <<>>
    /\ weekly_product = <<>>
    /\ featured_weeks = {}
    /\ reactivation_tracker = <<>>
    /\ reactivation_tracker_sorted = <<>>
    /\ kpi_dashboard = <<>>
    /\ IdleBucket
    /\ IdleService
    /\ IdleMain
    /\ IdleLabel
    /\ IdleFeat
    /\ IdleRun

\* weekly_product = create_weekly_product_performance(featured_data,
\*                      calendar_events, product_brands)
CreateWeeklyProductPerformance ==
    /\ pc = "loaded"
    /\ weekly_product' = WeeklyProductPerformanceTable(featured_data, calendar_events,
                                                       product_brands)
    /\ pc' = "weekly_written"
    /\ UNCHANGED <<featured_weeks, reactivation_tracker, reactivation_tracker_sorted,
                   kpi_dashboard, bucketVars, serviceVars, aggVars, mainVars, labelVars, featVars, runVars>>

NextAgg == CreateWeeklyProductPerformance

SpecAgg == InitAgg /\ [][NextAgg]_vars

\* The total of total_units_sold over the rows of product p in table df.
UnitsOfProduct(df, p) ==
    Sum([i \in DOMAIN df |->
            IF df[i].product_id = p THEN df[i].total_units_sold ELSE 0])

\* C7: for every product of the daily input, the weekly rows of
\* weekly_product_performance carry the same total of total_units_sold as
\* the product's daily rows: no daily row is dropped or counted twice.
C7_NoRowLoss ==
    pc = "weekly_written" =>
        \A p \in {featured_data[i].product_id : i \in DOMAIN featured_data} :
            UnitsOfProduct(weekly_product, p) = UnitsOfProduct(featured_data, p)

\* C11: every row of weekly_product_performance has trend_ratio equal to
\* its own rolling_30d_avg_sales / (rolling_90d_avg_sales + 1e-9), and two
\* weekly rows with equal rolling_30d_avg_sales and equal
\* rolling_90d_avg_sales carry the same trend_label.
C11_LabelFunctionOfWeeklyAverages ==
    pc = "weekly_written" =>
        /\ \A i \in DOMAIN weekly_product :
              LET r == weekly_product[i]
              IN  RatEq(MeanRat(r.trend_ratio.mean_of),
                        [p |-> <<r.rolling_30d_avg_sales.num>>,
                         q |-> <<r.rolling_90d_avg_sales.num,
                                 r.rolling_90d_avg_sales.den>>])
        /\ \A i, j \in DOMAIN weekly_product :
              LET r == weekly_product[i]
                  t == weekly_product[j]
              IN  (/\ ValEq(r.rolling_30d_avg_sales, t.rolling_30d_avg_sales)
                   /\ ValEq(r.rolling_90d_avg_sales, t.rolling_90d_avg_sales))
                  => r.trend_label = t.trend_label

\* C20: a daily row whose date has no calendar entry, or whose product has
\* no entry in the brand lookup, still appears in weekly_product_performance:
\* there is a weekly row of its week and its product.
C20_MissingJoinsTolerated ==
    pc = "weekly_written" =>
        \A i \in DOMAIN featured_data :
            LET r == featured_data[i]
            IN  (\/ \A k \in DOMAIN calendar_events :
                        calendar_events[k].date # r.order_date
                 \/ \A k \in DOMAIN product_brands :
                        product_brands[k].product_id # r.product_id)
                => \E w \in RowSet(weekly_product) :
                      /\ w.week_start_date = WeekStartDate(r.order_date)
                      /\ w.product_id = r.product_id

(***************************************************************************)
(* create_kpi_dashboard: the weekly metrics and their lifts against the    *)
(* baseline.  A mean is the quotient [num |-> sum, den |-> count], 0/0     *)
(* (missing) over no rows.                                                 *)
(***************************************************************************)

\* The rows of df of week w, and of date d.
RowsOfWeek(df, w) == SelectSeq(df, LAMBDA r : WeekStartDate(r.order_date) = w)

RowsOfDate(df, d) == SelectSeq(df, LAMBDA r : r.order_date = d)

\* The sum of gross_revenue over rows.
Revenue(rows) == Sum([i \in DOMAIN rows |-> rows[i].gross_revenue])

\* The week_start_dates of df, ascending: the keys of groupby('week_start_date').
MetricWeeks(df) == Ascending({WeekStartDate(df[i].order_date) : i \in DOMAIN df})

\* The number of weeks and of days the baselines are taken over.
BaselineWeeks == 13

BaselineDays == 91

\* weekly_metrics.head(13)['weekly_revenue'].mean()
BaselineRevenue(df) ==
    LET weeks == MetricWeeks(df)
        head == SubSeq(weeks, 1, IF Len(weeks) < BaselineWeeks THEN Len(weeks)
                                 ELSE BaselineWeeks)
    IN  [num |-> Sum([k \in DOMAIN head |-> Revenue(RowsOfWeek(df, head[k]))]),
         den |-> Len(head), eps |-> 0]

\* df[df['order_date'] < df['order_date'].min() + pd.Timedelta(days=91)]
\*     .groupby('order_date')['gross_revenue'].mean().mean()
BaselineAov(df) ==
    IF df = <<>> THEN NaN
    ELSE LET first == CHOOSE d \in {df[i].order_date : i \in DOMAIN df} :
                          \A i \in DOMAIN df : d <= df[i].order_date
             early == SelectSeq(df, LAMBDA r : r.order_date < first + BaselineDays)
             dates == Ascending({early[i].order_date : i \in DOMAIN early})
             daily == [k \in DOMAIN dates |->
                         [num |-> Revenue(RowsOfDate(early, dates[k])),
                          den |-> Len(RowsOfDate(early, dates[k])), eps |-> 0]]
             mean == MeanRat(daily)
         IN  [num |-> mean.p[1], den |-> mean.q[1], eps |-> 0]

\* (current - baseline) / baseline * 100, for two quotients without 1e-9
\* part.  A baseline of 0 leaves the denominator 0: the value is inf or NaN.
LiftOverBaseline(current, baseline) ==
    [num |-> (current.num * baseline.den - baseline.num * current.den) * 100,
     den |-> current.den * baseline.num,
     eps |-> 0]

\* The table weekly_metrics with the revenue and order-value columns that
\* kpi_dashboard takes from it.
WeeklyMetricsTable(df) ==
    LET weeks == MetricWeeks(df)
        baseline_revenue == BaselineRevenue(df)
        baseline_aov == BaselineAov(df)
    IN  Column([k \in DOMAIN weeks |->
            LET rows == RowsOfWeek(df, weeks[k])
                weekly_revenue == Revenue(rows)
                avg_order_value == [num |-> weekly_revenue, den |-> Len(rows), eps |-> 0]
            IN  [week_start_date |-> weeks[k],
                 weekly_revenue  |-> weekly_revenue,
                 avg_order_value |-> avg_order_value,
                 vs_baseline_revenue_lift_pct |->
                     LiftOverBaseline(Num(weekly_revenue), baseline_revenue),
                 vs_baseline_aov_pct |->
                     LiftOverBaseline(avg_order_value, baseline_aov)]])

(***************************************************************************)
(* SpecLift: featured_data -> weekly_metrics of create_kpi_dashboard       *)
(***************************************************************************)

MaxRevenue == 2

RECURSIVE RevenueRowsOf(_, _)
\* The daily rows g gives the keys (product, date), in key order; a key
\* that g sends to -1 has no row.
RevenueRowsOf(g, keys) ==
    IF keys = <<>> THEN <<>>
    ELSE LET x == Head(keys)
             rest == RevenueRowsOf(g, Tail(keys))
         IN  IF g[x] < 0 THEN rest
             ELSE <<[product_id |-> x[1], order_date |-> x[2],
                     gross_revenue |-> g[x]]>> \o rest

InitLift ==
    /\ pc = "kpi_merged"
    /\ \E g \in [AggProducts \X AggDates -> (-1)..MaxRevenue] :
          featured_data = RevenueRowsOf(g, AggKeys)
    /\ calendar_events = <<>>
    /\ product_brands = <<>>
    /\ weekly_metrics = <<>>
    /\ IdleBucket
    /\ IdleService
    /\ IdleTrack
    /\ IdleMain
    /\ IdleLabel
    /\ IdleFeat
    /\ IdleRun

\* The steps of create_kpi_dashboard from the weekly aggregation to the two
\* lifts against the baseline.
WeeklyMetrics ==
    /\ pc = "kpi_merged"
    /\ weekly_metrics' = WeeklyMetricsTable(featured_data)
    /\ pc' = "kpi_lifts"
    /\ UNCHANGED <<featured_data, calendar_events, product_brands,
                   bucketVars, serviceVars, trackVars, mainVars, labelVars, featVars, runVars>>

NextLift == WeeklyMetrics

SpecLift == InitLift /\ [][NextLift]_vars

\* (current - baseline) / (baseline + 1e-9) * 100 for two quotients without
\* 1e-9 part.
GuardedPctChange(current, baseline) ==
    [num |-> (current.num * baseline.den - baseline.num * current.den) * 100,
     den |-> current.den * baseline.num,
     eps |-> current.den * baseline.den]

\* C15: the percentage changes of kpi_dashboard, vs_baseline_revenue_lift_pct
\* and vs_baseline_aov_pct, are (current - baseline) / (baseline + 1e-9) * 100:
\* finite numbers, also for a baseline of exactly 0.
C15_PctChangeEpsGuarded ==
    pc = "kpi_lifts" =>
        \A i \in DOMAIN weekly_metrics :
            LET r == weekly_metrics[i]
            IN  /\ r.vs_baseline_revenue_lift_pct.den # 0
                /\ r.vs_baseline_aov_pct.den # 0
                /\ ValEq(r.vs_baseline_revenue_lift_pct,
                         GuardedPctChange(Num(r.weekly_revenue),
                                          BaselineRevenue(featured_data)))
                /\ ValEq(r.vs_baseline_aov_pct,
                         GuardedPctChange(r.avg_order_value, BaselineAov(featured_data)))

(***************************************************************************)
(* main: load_base_data, then the seven create_* calls in order.  Each     *)
(* create_* call computes its table and writes its file as its last step;  *)
(* an exception raised inside a call leaves main at once (main catches     *)
(* nothing).                                                               *)
(***************************************************************************)

\* The columns of featured_data.csv.
FeaturedColumns ==
    {"product_id", "category_name", "promo_id", "order_date", "total_units_sold",
     "gross_revenue", "total_discount", "cogs", "gross_profit",
     "rolling_30d_avg_sales", "rolling_90d_avg_sales", "trend_ratio",
     "trend_label", "net_profit_margin"}

\* The output file of each create_* call, in the order main makes the calls.
OutputOrder ==
    <<"weekly_product_performance", "reactivation_tracker",
      "seasonal_event_performance", "category_performance_weekly",
      "promotional_effectiveness", "kpi_dashboard", "campaign_timeline_reference">>

\* The columns of featured_data that load_base_data reads.
LoadRequires == {"order_date"}

\* The columns of featured_data that the k-th create_* call reads (a read of
\* a column the table lacks raises KeyError).
Requires(k) ==
    CASE k = 1 -> {"order_date", "product_id", "category_name", "total_units_sold",
                   "gross_revenue", "gross_profit", "rolling_30d_avg_sales",
                   "rolling_90d_avg_sales", "trend_ratio", "net_profit_margin",
                   "promo_id"}
      [] k = 2 -> {}
      [] k = 3 -> {"order_date", "category_name", "gross_revenue", "gross_profit"}
      [] k = 4 -> {"order_date", "category_name", "gross_revenue", "gross_profit",
                   "total_units_sold", "product_id", "promo_id", "trend_label"}
      [] k = 5 -> {"order_date", "promo_id", "category_name", "gross_revenue",
                   "total_units_sold", "total_discount", "gross_profit"}
      [] k = 6 -> {"order_date", "gross_revenue", "gross_profit", "total_discount"}
      [] OTHER -> {}

\* Every column some part of the run requires.
RequiredColumns == LoadRequires \cup UNION {Requires(k) : k \in 1..7}

\* Whether the k-th call raises on the data: create_promotional_effectiveness
\* names the pivot's columns [week, category, no_promo, with_promo], which
\* raises ValueError unless featured_data holds rows with and without a promo.
DataRaises(k, promos) == k = 5 /\ promos # {TRUE, FALSE}

\* Whether the k-th create_* call raises.
StepRaises(k, columns, promos) ==
    ~(Requires(k) \subseteq columns) \/ DataRaises(k, promos)

\* A failure that removes the files the run has written.
FilesRolledBack(files) == <<>>

\* The files on disk after a call has raised: what was written stays.
FilesAfterFailure(files) == files

\* A call that writes its file twice.
FilesAfterStepTwice(files, k) == files \o <<OutputOrder[k], OutputOrder[k]>>

\* The files on disk after the k-th call has returned.
FilesAfterStep(files, k) == Append(files, OutputOrder[k])

(***************************************************************************)
(* SpecMain                                                                *)
(***************************************************************************)

MaxMissing == 2

InitMain ==
    /\ pc = "main"
    /\ \E missing \in SUBSET FeaturedColumns :
          /\ Cardinality(missing) <= MaxMissing
          /\ featured_columns = FeaturedColumns \ missing
    /\ promo_values \in {{TRUE}, {FALSE}, {TRUE, FALSE}}
    /\ step = 0
    /\ files_written = <<>>
    /\ failed_step = 0
    /\ IdleBucket
    /\ IdleService
    /\ IdleTrack
    /\ IdleAgg
    /\ IdleLabel
    /\ IdleFeat
    /\ IdleRun

\* featured_data, calendar_events, product_brands = load_base_data()
LoadBaseData ==
    /\ pc = "main"
    /\ IF LoadRequires \subseteq featured_columns
       THEN pc' = "running" /\ step' = 1
       ELSE pc' = "failed" /\ step' = step
    /\ UNCHANGED <<featured_columns, promo_values, files_written, failed_step,
                   bucketVars, serviceVars, trackVars, aggVars, labelVars, featVars, runVars>>

\* The k-th create_* call of main.
Call(k) ==
    /\ pc = "running"
    /\ step = k
    /\ IF StepRaises(k, featured_columns, promo_values)
       THEN /\ pc' = "failed"
            /\ failed_step' = k
            /\ files_written' = FilesAfterFailure(files_written)
            /\ step' = step
       ELSE /\ files_written' = FilesAfterStep(files_written, k)
            /\ failed_step' = failed_step
            /\ IF k = 7
               THEN pc' = "completed" /\ step' = step
               ELSE pc' = "running" /\ step' = k + 1
    /\ UNCHANGED <<featured_columns, promo_values, bucketVars, serviceVars, trackVars, aggVars,
                   labelVars, featVars, runVars>>

MainWeeklyProductPerformance == Call(1)

MainReactivationTracker == Call(2)

MainSeasonalEventPerformance == Call(3)

MainCategoryPerformanceWeekly == Call(4)

MainPromotionalEffectiveness == Call(5)

MainKpiDashboard == Call(6)

MainCampaignTimelineReference == Call(7)

NextMain ==
    \/ LoadBaseData
    \/ MainWeeklyProductPerformance
    \/ MainReactivationTracker
    \/ MainSeasonalEventPerformance
    \/ MainCategoryPerformanceWeekly
    \/ MainPromotionalEffectiveness
    \/ MainKpiDashboard
    \/ MainCampaignTimelineReference

SpecMain == InitMain /\ [][NextMain]_vars

\* C8 as stated: a run that completes has written all seven files, and a
\* run that fails has written none.
C8_AllOrNothing ==
    /\ pc = "completed" => files_written = OutputOrder
    /\ pc = "failed" => files_written = <<>>

\* C8 (amended): a run that completes has written all seven files; a run
\* that fails inside its k-th call has written exactly the files of the
\* calls 1..k-1, in main's order, and they stay written.
C8_CompletedCallsPersist ==
    /\ pc = "completed" => files_written = OutputOrder
    /\ pc = "failed" =>
          /\ failed_step \in 0..6
          /\ files_written = SubSeq(OutputOrder, 1, failed_step - 1)

\* A failed run that has left four of the seven files written.
C8_Witness ==
    /\ pc = "failed"
    /\ failed_step = 5
    /\ Len(files_written) = 4

\* C9: when a column some dataset requires is missing from the input, no
\* output file is ever written.
C9_SchemaErrorBeforeAnyOutput ==
    ~(RequiredColumns \subseteq featured_columns) => files_written = <<>>

(***************************************************************************)
(* create_seasonal_event_performance, create_category_performance_weekly   *)
(* and create_promotional_effectiveness: the groups, their counts and sums *)
(* and the order of the rows                                               *)
(***************************************************************************)

\* df[df['seasonal_event_flag'] == True]
EventRows(df) == SelectSeq(df, LAMBDA r : r.seasonal_event_flag = <<TRUE>>)

\* The group key of an event row: week_start_date, event_name,
\* event_category.
EventKey(r) ==
    <<WeekStartDate(r.order_date), NameRank(r.event_name[1]),
      NameRank(r.event_category[1])>>

\* The key columns ['week_start_date', 'event_name'] of df.
ByWeekEvent(df) ==
    Column([i \in DOMAIN df |-> <<df[i].week_start_date, NameRank(df[i].event_name)>>])

\* The table create_seasonal_event_performance writes and returns.
SeasonalEventPerformanceTable(featured, calendar) ==
    LET df_events == EventRows(MergeCalendar(featured, calendar))
        keys == SortedKeys({EventKey(df_events[i]) : i \in DOMAIN df_events})
        weekly_events ==
            Column([k \in DOMAIN keys |->
                LET rows == SelectSeq(df_events, LAMBDA r : EventKey(r) = keys[k])
                IN  [week_start_date    |-> keys[k][1],
                     event_name         |-> Names[keys[k][2]],
                     event_category     |-> Names[keys[k][3]],
                     total_transactions |-> Len(rows),
                     gross_revenue      |-> Sum([i \in DOMAIN rows |-> rows[i].gross_revenue]),
                     gross_profit       |-> Sum([i \in DOMAIN rows |-> rows[i].gross_profit])]])
    IN  SortValues(weekly_events, ByWeekEvent(weekly_events))

\* The group key of a row: week_start_date, category_name.
CategoryKey(r) == <<WeekStartDate(r.order_date), NameRank(r.category_name)>>

\* The key columns ['week_start_date', 'category_name'] of df.
ByWeekCategory(df) ==
    Column([i \in DOMAIN df |-> <<df[i].week_start_date, NameRank(df[i].category_name)>>])

\* A count of the distinct products with the label in a group.
ProductsWithLabelDistinct(rows, label) ==
    Cardinality({rows[i].product_id : i \in {j \in DOMAIN rows : rows[j].trend_label = label}})

\* The sum over a group of (df['trend_label'] == label).astype(int)
ProductsWithLabel(rows, label) ==
    Sum([i \in DOMAIN rows |-> IF rows[i].trend_label = label THEN 1 ELSE 0])

\* The table create_category_performance_weekly writes and returns.
CategoryPerformanceWeeklyTable(featured, calendar) ==
    LET df == MergeCalendar(featured, calendar)
        keys == SortedKeys({CategoryKey(df[i]) : i \in DOMAIN df})
        weekly ==
            Column([k \in DOMAIN keys |->
                LET rows == SelectSeq(df, LAMBDA r : CategoryKey(r) = keys[k])
                    total_revenue == Sum([i \in DOMAIN rows |-> rows[i].gross_revenue])
                    total_profit == Sum([i \in DOMAIN rows |-> rows[i].gross_profit])
                    promo_transaction_count ==
                        Len(SelectSeq(rows, LAMBDA r : r.promo_id # <<>>))
                    total_transactions == Len(rows)
                IN  [week_start_date       |-> keys[k][1],
                     category_name         |-> Names[keys[k][2]],
                     total_revenue         |-> total_revenue,
                     total_profit          |-> total_profit,
                     total_units           |->
                         Sum([i \in DOMAIN rows |-> rows[i].total_units_sold]),
                     unique_products_sold  |->
                         Cardinality({rows[i].product_id : i \in DOMAIN rows}),
                     avg_margin            |-> Times(EpsDiv(total_profit, total_revenue), 100),
                     products_declining    |-> ProductsWithLabel(rows, "Declining"),
                     products_growing      |-> ProductsWithLabel(rows, "Growing"),
                     products_plateau      |-> ProductsWithLabel(rows, "Plateau"),
                     promo_penetration_pct |->
                         Times(EpsDiv(promo_transaction_count, total_transactions), 100),
                     seasonal_event_flag   |->
                         MaxFlag([i \in DOMAIN rows |-> rows[i].seasonal_event_flag])]])
    IN  SortValues(weekly, ByWeekCategory(weekly))

\* The group key of a row: week_start_date, category_name, has_promotion
\* (False before True).
PromoKey(r) ==
    <<WeekStartDate(r.order_date), NameRank(r.category_name),
      IF r.promo_id # <<>> THEN 1 ELSE 0>>

\* The key columns ['week_start_date', 'category_name', 'has_promotion'].
ByWeekCategoryPromo(df) ==
    Column([i \in DOMAIN df |->
        <<df[i].week_start_date, NameRank(df[i].category_name),
          IF df[i].has_promotion THEN 1 ELSE 0>>])

\* The table create_promotional_effectiveness writes and returns, for a
\* featured_data with promotion rows and rows without a promotion.
PromotionalEffectivenessTable(featured) ==
    LET keys == SortedKeys({PromoKey(featured[i]) : i \in DOMAIN featured})
        weekly ==
            Column([k \in DOMAIN keys |->
                LET rows == SelectSeq(featured, LAMBDA r : PromoKey(r) = keys[k])
                    total_revenue == Sum([i \in DOMAIN rows |-> rows[i].gross_revenue])
                    gross_profit == Sum([i \in DOMAIN rows |-> rows[i].gross_profit])
                IN  [week_start_date   |-> keys[k][1],
                     category_name     |-> Names[keys[k][2]],
                     has_promotion     |-> keys[k][3] = 1,
                     transaction_count |-> Len(rows),
                     gross_profit      |-> gross_profit,
                     net_margin        |-> Times(EpsDiv(gross_profit, total_revenue), 100)]])
    IN  SortValues(weekly, ByWeekCategoryPromo(weekly))

(***************************************************************************)
(* SpecRun: main from the return of load_base_data on, over tables with    *)
(* every column: the seven create_* calls and the tables they return       *)
(***************************************************************************)

EventNames == {"Gala", "Sale"}

EventCategoryOf(name) ==
    IF name = "Gala" THEN "Community" ELSE IF name = "Sale" THEN "Retail" ELSE "None"

\* The calendar with a row for every date c does not send to "absent": an
\* event day of the name c gives, or a day without an event ("None").
CalendarOf(c) ==
    LET dates == Ascending({d \in AggDates : c[d] # "absent"})
    IN  Column([k \in DOMAIN dates |->
            [date                |-> dates[k],
             event_name          |-> c[dates[k]],
             event_category      |-> EventCategoryOf(c[dates[k]]),
             seasonal_event_flag |-> c[dates[k]] \in EventNames]])

\* The state after load_base_data has returned: featured_data has at least
\* one row and at most one per (product, date), calendar_events at most one
\* row per date, product_brands a row for product 1 and possibly product 2.
InitRun ==
    /\ pc = "running"
    /\ step = 1
    /\ \E u \in [AggProducts \X AggDates -> {0, 1}],
          profile \in {f \in [AggProducts -> {"steady", "swing"}] : f[1] = "steady"} :
          /\ featured_data = FeaturedOf(u, profile, AggKeys)
          /\ featured_data # <<>>
    /\ \E c \in [AggDates -> {"absent", "None"} \cup EventNames] :
          calendar_events = CalendarOf(c)
    /\ \E ps \in {{1}, AggProducts} :
          product_brands =
              LET ids == Ascending(ps)
              IN  [k \in DOMAIN ids |->
                      [product_id |-> ids[k], brand_name |-> BrandOf(ids[k])]]
    /\ featured_weeks = {WeekStartDate(featured_data[i].order_date) : i \in DOMAIN featured_data}
    /\ featured_columns = FeaturedColumns
    /\ promo_values = {featured_data[i].promo_id # <<>> : i \in DOMAIN featured_data}
    /\ files_written = <<>>
    /\ failed_step = 0
    /\ weekly_metrics = <<>>
    /\ weekly_product = <<>>
    /\ reactivation_tracker = <<>>
    /\ reactivation_tracker_sorted = <<>>
    /\ kpi_dashboard = <<>>
    /\ IdleRun
    /\ IdleBucket
    /\ IdleService
    /\ IdleLabel
    /\ IdleFeat

\* weekly_product = create_weekly_product_performance(featured_data,
\*                      calendar_events, product_brands)
RunWeeklyProductPerformance ==
    /\ pc = "running" /\ step = 1
    /\ weekly_product' = WeeklyProductPerformanceTable(featured_data, calendar_events,
                                                       product_brands)
    /\ files_written' = FilesAfterStep(files_written, 1)
    /\ step' = 2
    /\ UNCHANGED <<pc, featured_weeks, reactivation_tracker, reactivation_tracker_sorted,
                   kpi_dashboard, featured_columns, promo_values, failed_step,
                   bucketVars, serviceVars, aggVars, labelVars, featVars, runVars>>

\* reactivation_tracker = create_reactivation_tracker(weekly_product)
RunReactivationTracker ==
    /\ pc = "running" /\ step = 2
    /\ reactivation_tracker' = CreateReactivationTrackerTable(weekly_product)
    /\ files_written' = FilesAfterStep(files_written, 2)
    /\ step' = 3
    /\ UNCHANGED <<pc, weekly_product, featured_weeks, reactivation_tracker_sorted,
                   kpi_dashboard, featured_columns, promo_values, failed_step,
                   bucketVars, serviceVars, aggVars, labelVars, featVars, runVars>>

\* seasonal_events = create_seasonal_event_performance(featured_data,
\*                       calendar_events)
\* Without a row on an event day the call ends in
\* groupby(...).apply(...).reset_index(name=...) over an empty table, which
\* raises or returns an empty table depending on the pandas build.
RunSeasonalEventPerformance ==
    /\ pc = "running" /\ step = 3
    /\ \E raises \in IF EventRows(MergeCalendar(featured_data, calendar_events)) = <<>>
                     THEN BOOLEAN ELSE {FALSE} :
          IF raises
          THEN /\ pc' = "failed"
               /\ failed_step' = 3
               /\ files_written' = FilesAfterFailure(files_written)
               /\ UNCHANGED <<step, seasonal_events>>
          ELSE /\ seasonal_events' =
                      SeasonalEventPerformanceTable(featured_data, calendar_events)
               /\ files_written' = FilesAfterStep(files_written, 3)
               /\ step' = 4
               /\ UNCHANGED <<pc, failed_step>>
    /\ UNCHANGED <<category_weekly, promo_effectiveness, featured_columns, promo_values,
                   bucketVars, serviceVars, trackVars, aggVars, labelVars, featVars>>

\* category_weekly = create_category_performance_weekly(featured_data,
\*                       calendar_events)
RunCategoryPerformanceWeekly ==
    /\ pc = "running" /\ step = 4
    /\ category_weekly' = CategoryPerformanceWeeklyTable(featured_data, calendar_events)
    /\ files_written' = FilesAfterStep(files_written, 4)
    /\ step' = 5
    /\ UNCHANGED <<pc, seasonal_events, promo_effectiveness, featured_columns,
                   promo_values, failed_step, bucketVars, serviceVars, trackVars, aggVars, labelVars,
                   featVars>>

\* promo_effectiveness = create_promotional_effectiveness(featured_data)
RunPromotionalEffectiveness ==
    /\ pc = "running" /\ step = 5
    /\ IF StepRaises(5, featured_columns, promo_values)
       THEN /\ pc' = "failed"
            /\ failed_step' = 5
            /\ files_written' = FilesAfterFailure(files_written)
            /\ UNCHANGED <<step, promo_effectiveness>>
       ELSE /\ promo_effectiveness' = PromotionalEffectivenessTable(featured_data)
            /\ files_written' = FilesAfterStep(files_written, 5)
            /\ step' = 6
            /\ UNCHANGED <<pc, failed_step>>
    /\ UNCHANGED <<seasonal_events, category_weekly, featured_columns, promo_values,
                   bucketVars, serviceVars, trackVars, aggVars, labelVars, featVars>>

\* kpi_dashboard = create_kpi_dashboard(featured_data, calendar_events,
\*                                      reactivation_tracker)
RunKpiDashboard ==
    /\ pc = "running" /\ step = 6
    /\ reactivation_tracker_sorted' = SortedTrackerTable(reactivation_tracker)
    /\ kpi_dashboard' = KpiDashboardTable(featured_weeks, reactivation_tracker,
                                          reactivation_tracker_sorted')
    /\ files_written' = FilesAfterStep(files_written, 6)
    /\ step' = 7
    /\ UNCHANGED <<pc, weekly_product, featured_weeks, reactivation_tracker,
                   featured_columns, promo_values, failed_step,
                   bucketVars, serviceVars, aggVars, labelVars, featVars, runVars>>

\* campaign_timeline = create_campaign_timeline_reference()
RunCampaignTimelineReference ==
    /\ pc = "running" /\ step = 7
    /\ files_written' = FilesAfterStep(files_written, 7)
    /\ pc' = "completed"
    /\ UNCHANGED <<step, featured_columns, promo_values, failed_step,
                   bucketVars, serviceVars, trackVars, aggVars, labelVars, featVars, runVars>>

NextRun ==
    \/ RunWeeklyProductPerformance
    \/ RunReactivationTracker
    \/ RunSeasonalEventPerformance
    \/ RunCategoryPerformanceWeekly
    \/ RunPromotionalEffectiveness
    \/ RunKpiDashboard
    \/ RunCampaignTimelineReference

SpecRun == InitRun /\ [][NextRun]_vars

\* Whether the keys of a table's rows ascend from each row to the next.
InKeyOrder(keys) ==
    \A i \in 1..(Len(keys) - 1) : KeyLess(keys[i], keys[i + 1])

\* C22: each of the six week-keyed outputs has its rows in ascending order
\* of week_start_date and then of its grouping keys; reactivation_tracker is
\* in (week_start_date, product_id) order, not in the (product_id,
\* week_start_date) order of its run-length pass.
C22_OutputsInWeekThenKeyOrder ==
    /\ InKeyOrder([i \in DOMAIN weekly_product |->
          <<weekly_product[i].week_start_date, weekly_product[i].product_id>>])
    /\ InKeyOrder([i \in DOMAIN reactivation_tracker |->
          <<reactivation_tracker[i].week_start_date, reactivation_tracker[i].product_id>>])
    /\ InKeyOrder([i \in DOMAIN seasonal_events |->
          <<seasonal_events[i].week_start_date, NameRank(seasonal_events[i].event_name),
            NameRank(seasonal_events[i].event_category)>>])
    /\ InKeyOrder([i \in DOMAIN category_weekly |->
          <<category_weekly[i].week_start_date, NameRank(category_weekly[i].category_name)>>])
    /\ InKeyOrder([i \in DOMAIN promo_effectiveness |->
          <<promo_effectiveness[i].week_start_date,
            NameRank(promo_effectiveness[i].category_name),
            IF promo_effectiveness[i].has_promotion THEN 1 ELSE 0>>])
    /\ InKeyOrder([i \in DOMAIN kpi_dashboard |-> <<kpi_dashboard[i].week_start_date>>])

\* A completed run in which both products sell in both weeks, so that the
\* tracker's pass order (product, week) differs from its written order, the
\* second week holds a Sale day followed by a Gala day, and every other
\* table has rows of both weeks.
C22_Witness ==
    /\ pc = "completed"
    /\ Len(weekly_product) = 4
    /\ Len(reactivation_tracker) = 4
    /\ reactivation_tracker[2].product_id = 2
    /\ reactivation_tracker[2].week_start_date < reactivation_tracker[3].week_start_date
    /\ reactivation_tracker[3].product_id = 1
    /\ \E i \in DOMAIN seasonal_events :
          /\ i + 1 \in DOMAIN seasonal_events
          /\ seasonal_events[i].week_start_date = seasonal_events[i + 1].week_start_date
          /\ seasonal_events[i].event_name = "Gala"
          /\ seasonal_events[i + 1].event_name = "Sale"
    /\ Len(category_weekly) = 4
    /\ Len(promo_effectiveness) >= 5
    /\ Len(kpi_dashboard) = 2

\* C23: a run of main that completes has written exactly the seven output
\* files, each once, in main's order; no file is ever written twice; the
\* reactivation_tracker of the run is computed from the
\* weekly_product_performance table of the same run, written before it, and
\* the kpi_dashboard from the reactivation_tracker of the same run, written
\* before it.
C23_SevenFilesInOrderFromOwnResults ==
    /\ pc = "completed" =>
          files_written = <<"weekly_product_performance", "reactivation_tracker",
                            "seasonal_event_performance", "category_performance_weekly",
                            "promotional_effectiveness", "kpi_dashboard",
                            "campaign_timeline_reference">>
    /\ \A i, j \in DOMAIN files_written : i < j => files_written[i] # files_written[j]
    /\ \A i \in DOMAIN files_written :
          /\ files_written[i] = "weekly_product_performance" =>
                weekly_product = WeeklyProductPerformanceTable(featured_data,
                                     calendar_events, product_brands)
          /\ files_written[i] = "reactivation_tracker" =>
                /\ \E j \in 1..(i - 1) : files_written[j] = "weekly_product_performance"
                /\ reactivation_tracker = CreateReactivationTrackerTable(weekly_product)
          /\ files_written[i] = "kpi_dashboard" =>
                /\ \E j \in 1..(i - 1) : files_written[j] = "reactivation_tracker"
                /\ kpi_dashboard =
                      KpiDashboardTable(featured_weeks, reactivation_tracker,
                                        SortedTrackerTable(reactivation_tracker))
    /\ (\A i \in DOMAIN files_written : files_written[i] # "reactivation_tracker")
          => reactivation_tracker = <<>>
    /\ (\A i \in DOMAIN files_written : files_written[i] # "kpi_dashboard")
          => kpi_dashboard = <<>>

\* A completed run with seven files whose kpi_dashboard counts a Declining
\* product of the run's own tracker.
C23_Witness ==
    /\ pc = "completed"
    /\ Len(files_written) = 7
    /\ \E r \in RowSet(reactivation_tracker) : r.trend_label = "Declining"
    /\ \E k \in RowSet(kpi_dashboard) : k.declining_product_count = 1

\* The daily rows of the (week, category) bucket of the category row c that
\* carry one of the three labels.
LabelledBucket(c) ==
    {i \in DOMAIN featured_data :
        /\ WeekStartDate(featured_data[i].order_date) = c.week_start_date
        /\ featured_data[i].category_name = c.category_name
        /\ featured_data[i].trend_label \in {"Declining", "Growing", "Plateau"}}

MaxAvg == 22

\* The daily trend ratios behind the weekly rows, in hundredths.
RatioGrid == {90, 95, 100, 105, 110}

\* daily_trend is one daily row with its two rolling averages; weekly_trend
\* holds two weekly rows, each the mean of two daily trend ratios.
InitLabel ==
    /\ pc = "features"
    /\ \E s \in 0..MaxAvg, l \in {0, 20} :
          daily_trend = <<[rolling_30d_avg_sales |-> s, rolling_90d_avg_sales |-> l]>>
    /\ \E a, b, c, d \in RatioGrid :
          weekly_trend = <<[trend_ratio |-> MeanOfHundredths(<<a, b>>)],
                           [trend_ratio |-> MeanOfHundredths(<<c, d>>)]>>
    /\ IdleBucket
    /\ IdleService
    /\ IdleTrack
    /\ IdleAgg
    /\ IdleMain
    /\ IdleFeat
    /\ IdleRun

\* df = calculate_trend_labels(df)
CalculateTrendLabels ==
    /\ pc = "features"
    /\ daily_trend' = CalculateTrendLabelsTable(daily_trend)
    /\ pc' = "featured"
    /\ UNCHANGED <<weekly_trend, bucketVars, serviceVars, trackVars, aggVars, mainVars, featVars, runVars>>

\* The relabelling step of create_weekly_product_performance.
RelabelWeekly ==
    /\ pc = "featured"
    /\ weekly_trend' = RelabelWeeklyTable(weekly_trend)
    /\ pc' = "relabelled"
    /\ UNCHANGED <<daily_trend, bucketVars, serviceVars, trackVars, aggVars, mainVars, featVars, runVars>>

NextLabel == CalculateTrendLabels \/ RelabelWeekly

SpecLabel == InitLabel /\ [][NextLabel]_vars

\* The label the three bands give the ratio v.
InBand(v, label) ==
    /\ label \in {"Declining", "Plateau", "Growing"}
    /\ label = "Declining" <=> LessThanHundredths(v, 95)
    /\ label = "Plateau" <=> (~LessThanHundredths(v, 95) /\ LessThanHundredths(v, 105))
    /\ label = "Growing" <=> ~LessThanHundredths(v, 105)

\* C10: every trend_ratio gets exactly one label: Declining below 0.95,
\* Plateau from 0.95 (included) to 1.05 (excluded), Growing from 1.05
\* (included) on, in calculate_trend_labels and in the weekly relabelling.
C10_LabelBands ==
    /\ pc \in {"featured", "relabelled"} =>
          \A i \in DOMAIN daily_trend : InBand(daily_trend[i].trend_ratio, daily_trend[i].trend_label)
    /\ pc = "relabelled" =>
          \A i \in DOMAIN weekly_trend :
              /\ InBand(weekly_trend[i].trend_ratio, weekly_trend[i].trend_label)
              /\ (100 * weekly_trend[i].trend_ratio.num = 95 * weekly_trend[i].trend_ratio.den
                    => weekly_trend[i].trend_label = "Plateau")
              /\ (100 * weekly_trend[i].trend_ratio.num = 105 * weekly_trend[i].trend_ratio.den
                    => weekly_trend[i].trend_label = "Growing")

\* A weekly_trend ratio of exactly 0.95 labelled Plateau beside one of exactly
\* 1.05 labelled Growing, and a daily row 19 / (20 + 1e-9) labelled Declining.
C10_Witness ==
    /\ pc = "relabelled"
    /\ weekly_trend[1].trend_ratio = [num |-> 190, den |-> 200, eps |-> 0]
    /\ weekly_trend[1].trend_label = "Plateau"
    /\ weekly_trend[2].trend_ratio = [num |-> 210, den |-> 200, eps |-> 0]
    /\ weekly_trend[2].trend_label = "Growing"
    /\ daily_trend[1].trend_ratio = [num |-> 19, den |-> 20, eps |-> 1]
    /\ daily_trend[1].trend_label = "Declining"


(***************************************************************************)
(* features.py: calculate_rolling_averages, calculate_trend_labels with    *)
(* explicit columns, calculate_net_profit_margin.                          *)
(*                                                                         *)
(* A table row carries index, the label of the row in the DataFrame index. *)
(* A date is [type, day]: a "str" as read from a file or a "datetime64",   *)
(* of day number day.  The field rolling_avg_sales[w] stands for the       *)
(* column rolling_{w}d_avg_sales; a mean is [num |-> sum, den |-> count].  *)
(***************************************************************************)

\* pd.to_datetime(v)
ToDatetime(v) == [type |-> "datetime64", day |-> v.day]

\* The caller's table after a call that worked on the table itself.
CallerTableShared(df, returned) == returned

\* The caller's table after a call that worked on df.copy(): the table df
\* the caller passed.
CallerTable(df, returned) == df

\* The mean of value_col over the window trailing rows of the whole table.
RollingMeanUngrouped(df, i, window) ==
    LET inside == {j \in 1..i : j > i - window}
    IN  [num |-> Sum([j \in DOMAIN df |->
                        IF j \in inside THEN df[j].total_units_sold ELSE 0]),
         den |-> Cardinality(inside), eps |-> 0]

\* df.groupby(group_col)[value_col].rolling(window, min_periods=1).mean()
\* at row i of the sorted table: the mean over the row and the up to
\* window - 1 rows before it in its group.
RollingMean(df, i, window) ==
    LET pos == GroupPos(df)
        inside == {j \in 1..i : /\ df[j].product_id = df[i].product_id
                                /\ pos[j] > pos[i] - window}
    IN  [num |-> Sum([j \in DOMAIN df |->
                        IF j \in inside THEN df[j].total_units_sold ELSE 0]),
         den |-> Cardinality(inside), eps |-> 0]

\* calculate_rolling_averages(df, windows=ws): the date column converted,
\* the rows sorted by (group_col, date_col), one column per window size.
CalculateRollingAveragesTable(df, ws) ==
    LET converted == Column([i \in DOMAIN df |->
                        [df[i] EXCEPT !.order_date = ToDatetime(@)]])
        sorted == SortValues(converted,
                      Column([i \in DOMAIN converted |->
                          <<converted[i].product_id, converted[i].order_date.day>>]))
    IN  Column([i \in DOMAIN sorted |->
            sorted[i] @@ [rolling_avg_sales |->
                [w \in {ws[k] : k \in DOMAIN ws} |-> RollingMean(sorted, i, w)]]])

\* short / long without the 1e-9.
TrendRatioUnguarded(short, long) ==
    [num |-> short.num * long.den, den |-> short.den * long.num, eps |-> 0]

\* df[short_col] / (df[long_col] + 1e-9), for two means.
TrendRatio(short, long) ==
    [num |-> short.num * long.den, den |-> short.den * long.num,
     eps |-> short.den * long.den]

\* calculate_trend_labels(df, short_col, long_col), the two columns named
\* by their window sizes.
CalculateTrendLabelsOfColumns(df, short_col, long_col) ==
    LET trend_ratio == Column([i \in DOMAIN df |->
            TrendRatio(df[i].rolling_avg_sales[short_col],
                       df[i].rolling_avg_sales[long_col])])
    IN  Column([i \in DOMAIN df |->
            df[i] @@ [trend_ratio |-> trend_ratio[i],
                      trend_label |-> TrendLabel(trend_ratio[i])]])

\* profit / revenue without the 1e-9.
NetProfitMarginUnguarded(profit, revenue) ==
    [num |-> profit, den |-> revenue, eps |-> 0]

\* df[profit_col] / (df[revenue_col] + 1e-9)
NetProfitMargin(profit, revenue) == EpsDiv(profit, revenue)

\* calculate_net_profit_margin(df)
CalculateNetProfitMarginTable(df) ==
    Column([i \in DOMAIN df |->
        df[i] @@ [net_profit_margin |->
                     NetProfitMargin(df[i].gross_profit, df[i].gross_revenue)]])

(***************************************************************************)
(* SpecFeat: a daily table through the three functions of features.py      *)
(***************************************************************************)

MaxDays == 14

\* The daily rows of product 1: one row a day for MaxDays days, hi units on
\* each of the first 7 days and lo units after; and the first k days of
\* product 2 with 5 units a day.
DailyRows(hi, lo, k, profit, revenue, type) ==
    [d \in 1..MaxDays |->
        [product_id |-> 1, order_date |-> [type |-> type, day |-> 20093 + d],
         total_units_sold |-> IF d <= 7 THEN hi ELSE lo,
         gross_profit |-> profit, gross_revenue |-> revenue]]
    \o [d \in 1..k |->
        [product_id |-> 2, order_date |-> [type |-> type, day |-> 20093 + d],
         total_units_sold |-> 5, gross_profit |-> 1, gross_revenue |-> 2]]

\* The table rows in the order the caller holds them, each row with its
\* index label: by date, or product 2 before product 1.
DailyTable(rows, order) ==
    LET keys == Column([i \in DOMAIN rows |->
                   IF order = "by_date"
                   THEN <<rows[i].order_date.day, rows[i].product_id>>
                   ELSE <<0 - rows[i].product_id, rows[i].order_date.day>>])
        held == SortValues(rows, keys)
    IN  Column([i \in DOMAIN held |-> held[i] @@ [index |-> i - 1]])

InitFeat ==
    /\ pc = "daily"
    /\ windows \in {<<7, 7>>, <<3, 7>>, <<1, MaxDays>>}
    /\ \E hi \in {0, 1, 10}, lo \in {1, 10}, k \in 0..2,
          profit \in {-1, 0, 1}, revenue \in {0, 2},
          type \in {"str", "datetime64"}, order \in {"by_date", "by_product"} :
          features_out = DailyTable(DailyRows(hi, lo, k, profit, revenue, type), order)
    /\ features_in = <<>>
    /\ IdleBucket
    /\ IdleService
    /\ IdleTrack
    /\ IdleAgg
    /\ IdleMain
    /\ IdleLabel
    /\ IdleRun

\* df = calculate_rolling_averages(df, windows=windows)
CalculateRollingAverages ==
    /\ pc = "daily"
    /\ features_out' = CalculateRollingAveragesTable(features_out, windows)
    /\ features_in' = CallerTable(features_out, features_out')
    /\ pc' = "rolled"
    /\ UNCHANGED <<windows, bucketVars, serviceVars, trackVars, aggVars, mainVars, labelVars,
                   runVars>>

\* df = calculate_trend_labels(df, short_col, long_col), the columns of the
\* first and the second window.
CalculateTrendLabelsOfWindows ==
    /\ pc = "rolled"
    /\ features_out' = CalculateTrendLabelsOfColumns(features_out, windows[1], windows[2])
    /\ features_in' = CallerTable(features_out, features_out')
    /\ pc' = "labelled"
    /\ UNCHANGED <<windows, bucketVars, serviceVars, trackVars, aggVars, mainVars, labelVars,
                   runVars>>

\* df = calculate_net_profit_margin(df)
CalculateNetProfitMargin ==
    /\ pc = "labelled"
    /\ features_out' = CalculateNetProfitMarginTable(features_out)
    /\ features_in' = CallerTable(features_out, features_out')
    /\ pc' = "margin"
    /\ UNCHANGED <<windows, bucketVars, serviceVars, trackVars, aggVars, mainVars, labelVars,
                   runVars>>

NextFeat ==
    \/ CalculateRollingAverages
    \/ CalculateTrendLabelsOfWindows
    \/ CalculateNetProfitMargin

SpecFeat == InitFeat /\ [][NextFeat]_vars

\* The position (from 1) of row x among the rows of its group in table raw,
\* in ascending date order.
DateRank(raw, x) ==
    Cardinality({j \in DOMAIN raw : /\ raw[j].product_id = x.product_id
                                    /\ raw[j].order_date.day <= x.order_date.day})

\* The rows of x's group that are among the w rows ending at x in ascending
\* date order.
TrailingRows(raw, x, w) ==
    {j \in DOMAIN raw : /\ raw[j].product_id = x.product_id
                        /\ DateRank(raw, raw[j]) <= DateRank(raw, x)
                        /\ DateRank(raw, raw[j]) > DateRank(raw, x) - w}

SameIndex(t, r) == CHOOSE q \in RowSet(t) : q.index = r.index

\* C17 as stated: each of the three calls returns as many rows as it was
\* given, every row with all its former columns unchanged, and leaves the
\* caller's table as it was.
C17_FormerColumnsUntouched ==
    [][ pc' # pc =>
          /\ Len(features_out') = Len(features_out)
          /\ \A i \in DOMAIN features_out :
                LET r == features_out[i]
                IN  /\ \E q \in RowSet(features_out') : q.index = r.index
                    /\ \A f \in DOMAIN r : SameIndex(features_out', r)[f] = r[f]
          /\ features_in' = features_out ]_vars

\* C17: each of the three calls returns as many rows as it was given, every
\* row (by index label) with all its former columns unchanged but for the
\* date column, which calculate_rolling_averages returns converted to
\* datetime with the same date, and in (group, date) order after
\* calculate_rolling_averages; the new columns are appended, and the
\* caller's table is left as it was.
C17_FormerColumnsKeepTheirData ==
    [][ pc' # pc =>
          /\ Len(features_out') = Len(features_out)
          /\ \A i \in DOMAIN features_out :
                LET r == features_out[i]
                IN  /\ \E q \in RowSet(features_out') : q.index = r.index
                    /\ \A f \in DOMAIN r \ {"order_date"} :
                          SameIndex(features_out', r)[f] = r[f]
                    /\ SameIndex(features_out', r).order_date.day = r.order_date.day
                    /\ IF pc = "daily"
                       THEN SameIndex(features_out', r).order_date.type = "datetime64"
                       ELSE SameIndex(features_out', r).order_date = r.order_date
          /\ pc # "daily" =>
                \A i \in DOMAIN features_out : features_out'[i].index = features_out[i].index
          /\ pc = "daily" =>
                \A i, j \in DOMAIN features_out' :
                    i < j => \/ features_out'[i].product_id < features_out'[j].product_id
                             \/ /\ features_out'[i].product_id = features_out'[j].product_id
                                /\ features_out'[i].order_date.day
                                      <= features_out'[j].order_date.day
          /\ features_in' = features_out ]_vars

\* After calculate_rolling_averages on a table held by date with string
\* dates: the caller's table still has its strings and its order, the
\* returned table has datetimes and starts with two rows of product 1.
C17_Witness ==
    /\ pc = "rolled"
    /\ Len(features_in) = Len(features_out)
    /\ features_in[1].order_date.type = "str"
    /\ features_in[1].product_id = 1 /\ features_in[2].product_id = 2
    /\ features_out[1].order_date.type = "datetime64"
    /\ features_out[1].product_id = 1 /\ features_out[2].product_id = 1
    /\ features_out[2].index = 2

\* One product with 14 daily rows, 10 units on each of the first 7 days
\* and 1 unit on each of the next 7, and the windows [7, 7].
Scenario ==
    /\ windows = <<7, 7>>
    /\ Len(features_out) = 14
    /\ \A i \in DOMAIN features_out :
          /\ features_out[i].product_id = 1
          /\ features_out[i].total_units_sold
                = IF features_out[i].order_date.day <= 20100 THEN 10 ELSE 1

\* C18 as stated: in the scenario the rows of the second week have
\* trend_ratio < 0.95 and trend_label Declining.
C18_SecondWeekDeclining ==
    (pc \in {"labelled", "margin"} /\ Scenario) =>
        \A i \in DOMAIN features_out :
            features_out[i].order_date.day > 20100 =>
                /\ LessThanHundredths(features_out[i].trend_ratio, 95)
                /\ features_out[i].trend_label = "Declining"

\* C18: in the scenario the windows [7, 7] give the single column
\* rolling_7d_avg_sales, which is both the short and the long column:
\* on every row trend_ratio = avg / (avg + 1e-9), which lies in
\* [0.95, 1.05), and trend_label is Plateau, the second week included.
C18_EqualWindowsPlateau ==
    (pc \in {"labelled", "margin"} /\ Scenario) =>
        \A i \in DOMAIN features_out :
            LET r == features_out[i]
                avg == r.rolling_avg_sales[7]
            IN  /\ DOMAIN r.rolling_avg_sales = {7}
                /\ r.trend_ratio = [num |-> avg.num * avg.den,
                                    den |-> avg.den * avg.num,
                                    eps |-> avg.den * avg.den]
                /\ ~LessThanHundredths(r.trend_ratio, 95)
                /\ LessThanHundredths(r.trend_ratio, 105)
                /\ r.trend_label = "Plateau"

\* The scenario labelled: the row of the eighth day has the 7-day mean 61/7
\* and the row of the last day the mean 7/7, both Plateau.
C18_Witness ==
    /\ pc = "labelled"
    /\ Scenario
    /\ \E i, j \in DOMAIN features_out :
          /\ features_out[i].order_date.day = 20101
          /\ features_out[i].rolling_avg_sales[7] = [num |-> 61, den |-> 7, eps |-> 0]
          /\ features_out[i].trend_label = "Plateau"
          /\ features_out[j].order_date.day = 20107
          /\ features_out[j].rolling_avg_sales[7] = [num |-> 7, den |-> 7, eps |-> 0]
          /\ features_out[j].trend_label = "Plateau"

\* C19: calculate_net_profit_margin gives every row
\* gross_profit / (gross_revenue + 1e-9), a number also for a revenue of 0,
\* and exactly 0 for revenue 0 and profit 0.
C19_MarginIsTotal ==
    pc = "margin" =>
        \A i \in DOMAIN features_out :
            LET r == features_out[i]
            IN  /\ r.net_profit_margin
                      = [num |-> r.gross_profit, den |-> r.gross_revenue, eps |-> 1]
                /\ r.net_profit_margin.den # 0 \/ r.net_profit_margin.eps # 0
                /\ (r.gross_revenue = 0 /\ r.gross_profit = 0)
                      => /\ r.net_profit_margin.num = 0
                         /\ ValEq(r.net_profit_margin, Num(0))

\* A table with revenue 0 and profit 0 on the rows of product 1, margin
\* 0 / (0 + 1e-9), beside a row of product 2 with margin 1 / (2 + 1e-9).
C19_Witness ==
    /\ pc = "margin"
    /\ \E i, j \in DOMAIN features_out :
          /\ features_out[i].gross_revenue = 0 /\ features_out[i].gross_profit = 0
          /\ features_out[i].net_profit_margin = [num |-> 0, den |-> 0, eps |-> 1]
          /\ features_out[j].net_profit_margin = [num |-> 1, den |-> 2, eps |-> 1]

-----------------------------------------------------------------------------
\* SpecConn: services/generate_data.py and services/create_schema.py,
\* pg_connection, and the with-block of main that uses it.

\* for _ in range(10)
Retries == 10

\* What psycopg2.connect raises that "except Exception" catches.
ConnectExceptions == {"OperationalError", "InterfaceError"}

\* What an attempt raises that "except Exception" lets through.
ConnectInterrupts == {"KeyboardInterrupt"}

\* What the body of the with-block raises: create_tables on a missing
\* schema file, or a statement the database refuses.
BodyExceptions == {"FileNotFoundError", "DatabaseError"}

\* An exception object: who raised it, and in which attempt (0 outside
\* the loop).
ExceptionOf(raised_by, attempt, kind) ==
    [raised_by |-> raised_by, attempt |-> attempt, kind |-> kind]

\* A loop that would go round once more than range(10) does.
MoreAttemptsInclusive(n) == n <= Retries

\* Whether range(10) has a further round after n of them.
MoreAttempts(n) == n < Retries

\* conn.close() placed after the yield without the finally clause: it runs
\* only when the body came back.
ClosesAfterBodyReturned(n, left) == IF left = "returned" THEN n + 1 ELSE n

\* conn.close() in the finally clause: it runs however the body was left.
ClosesAfterBody(n, left) == n + 1

\* pg_connection(params) has been called: nothing attempted yet.
InitConn ==
    /\ pc = "connecting"
    /\ IdleBucket
    /\ IdleService
    /\ IdleTrack
    /\ IdleAgg
    /\ IdleMain
    /\ IdleLabel
    /\ IdleFeat
    /\ IdleRun

\* One round of the loop: psycopg2.connect either returns a connection (break),
\* raises an Exception (kept in last_exc, sleep, next round or end of the
\* loop), or raises something "except Exception" does not catch.
Connect ==
    /\ pc = "connecting"
    /\ MoreAttempts(attempts)
    /\ attempts' = attempts + 1
    /\ \E outcome \in {"connected"} \cup ConnectExceptions \cup ConnectInterrupts :
          CASE outcome = "connected" ->
                 /\ conn' = <<attempts'>>
                 /\ pc' = "after_loop"
                 /\ UNCHANGED <<last_exc, raised>>
            [] outcome \in ConnectExceptions ->
                 /\ last_exc' = <<ExceptionOf("connect", attempts', outcome)>>
                 /\ pc' = IF MoreAttempts(attempts') THEN "connecting" ELSE "after_loop"
                 /\ UNCHANGED <<conn, raised>>
            [] OTHER ->
                 /\ raised' = <<ExceptionOf("connect", attempts', outcome)>>
                 /\ pc' = "done"
                 /\ UNCHANGED <<conn, last_exc>>
    /\ UNCHANGED <<body, closes, engineVars, returnsVars>>
    /\ UNCHANGED <<bucketVars, trackVars, aggVars, mainVars, labelVars, featVars, runVars>>

\* if conn is None: raise last_exc
RaiseLastExc ==
    /\ pc = "after_loop"
    /\ conn = <<>>
    /\ raised' = last_exc
    /\ pc' = "done"
    /\ UNCHANGED <<connVars, engineVars, returnsVars>>
    /\ UNCHANGED <<bucketVars, trackVars, aggVars, mainVars, labelVars, featVars, runVars>>

\* yield conn: the body of the with-block starts.
YieldConn ==
    /\ pc = "after_loop"
    /\ conn # <<>>
    /\ body' = "entered"
    /\ pc' = "in_body"
    /\ UNCHANGED <<attempts, conn, last_exc, closes, raised, engineVars, returnsVars>>
    /\ UNCHANGED <<bucketVars, trackVars, aggVars, mainVars, labelVars, featVars, runVars>>

\* The body of the with-block comes to its end.
BodyReturns ==
    /\ pc = "in_body"
    /\ body' = "returned"
    /\ pc' = "finally"
    /\ UNCHANGED <<attempts, conn, last_exc, closes, raised, engineVars, returnsVars>>
    /\ UNCHANGED <<bucketVars, trackVars, aggVars, mainVars, labelVars, featVars, runVars>>

\* The body of the with-block raises: the exception is thrown into the
\* generator at the yield.
BodyRaises ==
    /\ pc = "in_body"
    /\ \E kind \in BodyExceptions : raised' = <<ExceptionOf("body", 0, kind)>>
    /\ body' = "raised"
    /\ pc' = "finally"
    /\ UNCHANGED <<attempts, conn, last_exc, closes, engineVars, returnsVars>>
    /\ UNCHANGED <<bucketVars, trackVars, aggVars, mainVars, labelVars, featVars, runVars>>

\* finally: conn.close(), which returns or raises in its turn; an exception
\* of the body goes on to the caller when close returns.
CloseConn ==
    /\ pc = "finally"
    /\ closes' = ClosesAfterBody(closes, body)
    /\ \/ UNCHANGED raised
       \/ /\ closes' > closes
          /\ raised' = <<ExceptionOf("close", 0, "InterfaceError")>>
    /\ pc' = "done"
    /\ UNCHANGED <<attempts, conn, last_exc, body, engineVars, returnsVars>>
    /\ UNCHANGED <<bucketVars, trackVars, aggVars, mainVars, labelVars, featVars, runVars>>

NextConn ==
    \/ Connect
    \/ RaiseLastExc
    \/ YieldConn
    \/ BodyReturns
    \/ BodyRaises
    \/ CloseConn

SpecConn == InitConn /\ [][NextConn]_vars

\* C26: pg_connection never makes more than 10 attempts; the attempt that
\* connected is the last one made; the body is entered only with a
\* connection; and when the call is over after 10 attempts without a
\* connection, the exception of the 10th attempt has been raised and the body
\* was never entered.
C26_AtMostTenAttemptsThenLastException ==
    /\ attempts <= Retries
    /\ conn # <<>> => conn[1] = attempts
    /\ body # "not_entered" => conn # <<>>
    /\ (pc = "done" /\ attempts = Retries /\ conn = <<>>) =>
          /\ raised # <<>>
          /\ raised[1].raised_by = "connect"
          /\ raised[1].attempt = Retries
          /\ body = "not_entered"

\* All 10 attempts failed with an exception the loop caught, and the last of
\* them was raised.
C26_Witness ==
    /\ pc = "done"
    /\ attempts = Retries
    /\ conn = <<>>
    /\ raised = <<ExceptionOf("connect", Retries, "OperationalError")>>
    /\ raised = last_exc
    /\ body = "not_entered"

\* C27: close is never called without a connection nor while the body runs,
\* never more than once, and exactly once when the with-block has been left,
\* whether the body returned or raised.
C27_ClosedExactlyOnceOnLeaving ==
    /\ conn = <<>> => closes = 0
    /\ body \in {"not_entered", "entered"} /\ pc # "finally" => closes = 0
    /\ closes <= 1
    /\ (pc = "done" /\ body \in {"returned", "raised"}) => closes = 1

\* The with-block was left by an exception of the body, and the connection
\* of the third attempt was closed once.
C27_Witness ==
    /\ pc = "done"
    /\ conn = <<3>>
    /\ body = "raised"
    /\ raised = <<ExceptionOf("body", 0, "FileNotFoundError")>>
    /\ closes = 1

-----------------------------------------------------------------------------
\* SpecEngine: utils/database.py, test_connection and get_database_engine,
\* with utils/validation.py, validate_environment.

\* required_vars
RequiredVars == {"DB_HOST", "DB_PORT", "DB_NAME", "DB_USER", "DB_PASSWORD"}

\* missing_vars: the required variables os.getenv finds unset or empty.
MissingVars(env) == RequiredVars \ env

\* validate_environment(): the ValueError it raises, <<>> when it returns.
ValidateEnvironment(env) ==
    IF MissingVars(env) # {}
    THEN <<ExceptionOf("validate_environment", 0, "ValueError")>>
    ELSE <<>>

\* get_database_engine(): the engine it returns or the exception that leaves
\* it, the one of validate_environment or the one of create_engine, which is
\* logged and raised again.
GetDatabaseEngine(env, parses) ==
    IF ValidateEnvironment(env) # <<>>
    THEN [engine |-> <<>>, raised |-> ValidateEnvironment(env)]
    ELSE IF ~parses
         THEN [engine |-> <<>>,
               raised |-> <<ExceptionOf("create_engine", 0, "ArgumentError")>>]
         ELSE [engine |-> <<"created">>, raised |-> <<>>]

\* test_connection(engine) has been called, with an engine or with None, in
\* an environment with some of the required variables, with a DATABASE_URL
\* create_engine accepts or not, and a database that answers or not.
InitEngine ==
    /\ pc = "called"
    /\ environ \in SUBSET RequiredVars
    /\ engine \in {<<>>, <<"passed">>}
    /\ url_parses \in BOOLEAN
    /\ db_reachable \in BOOLEAN
    /\ result = <<>>
    /\ raised = <<>>
    /\ IdleConn
    /\ IdleReturns
    /\ IdleBucket
    /\ IdleTrack
    /\ IdleAgg
    /\ IdleMain
    /\ IdleLabel
    /\ IdleFeat
    /\ IdleRun

\* if engine is None: engine = get_database_engine(), ahead of the try.
CreateEngine ==
    /\ pc = "called"
    /\ engine = <<>>
    /\ LET made == GetDatabaseEngine(environ, url_parses)
       IN  /\ engine' = made.engine
           /\ raised' = made.raised
           /\ pc' = IF made.raised # <<>> THEN "done" ELSE "checking"
    /\ UNCHANGED <<environ, url_parses, db_reachable, result, connVars, returnsVars>>
    /\ UNCHANGED <<bucketVars, trackVars, aggVars, mainVars, labelVars, featVars, runVars>>

\* An engine was passed: the condition engine is None is false.
KeepEngine ==
    /\ pc = "called"
    /\ engine # <<>>
    /\ pc' = "checking"
    /\ UNCHANGED <<raised, engineVars, connVars, returnsVars>>
    /\ UNCHANGED <<bucketVars, trackVars, aggVars, mainVars, labelVars, featVars, runVars>>

\* try: engine.connect(), SELECT 1, return True; except Exception: return
\* False.
CheckConnection ==
    /\ pc = "checking"
    /\ result' = <<db_reachable>>
    /\ pc' = "done"
    /\ UNCHANGED <<raised, environ, engine, url_parses, db_reachable, connVars, returnsVars>>
    /\ UNCHANGED <<bucketVars, trackVars, aggVars, mainVars, labelVars, featVars, runVars>>

NextEngine ==
    \/ CreateEngine
    \/ KeepEngine
    \/ CheckConnection

SpecEngine == InitEngine /\ [][NextEngine]_vars

\* C29: every finished call of test_connection has returned a boolean and
\* raised nothing, also when no engine was passed: True when the connection
\* check succeeded, False when it failed or no engine could be created.
C29_ReturnsBooleanForEveryEngine ==
    pc = "done" =>
        /\ raised = <<>>
        /\ result \in {<<TRUE>>, <<FALSE>>}
        /\ result[1] = (engine # <<>> /\ db_reachable)

-----------------------------------------------------------------------------
\* SpecReturns: services/generate_data.py, generate_returns_from_sales.
\* Amounts of money are held in thousandths of the currency unit; the
\* timestamps of order and return are left out.

\* The most sales rows of a call.
MaxSales == 3

\* reasons
Reasons == {"Defective", "Wrong Size", "Not as Described", "Changed Mind", "Late Delivery"}

\* row.get(key, default) on a key held as <<>> when absent.
GetOr(field, default) == IF field = <<>> THEN default ELSE field[1]

\* not row.get("is_returned"): the key is absent (None) or False.
NotReturned(row) == ~GetOr(row.is_returned, FALSE)

\* round(x, 2) of an amount in thousandths: the nearest hundredth, the even
\* one when x lies halfway.
RoundToCents(x) ==
    LET below == x - (x % 10)
        rest == x % 10
    IN  IF rest < 5 THEN below
        ELSE IF rest > 5 THEN below + 10
        ELSE IF (below \div 10) % 2 = 0 THEN below ELSE below + 10

\* max(0.0, x)
AtLeastZero(x) == IF x < 0 THEN 0 ELSE x

\* refund_amount
RefundAmount(row) ==
    RoundToCents(AtLeastZero((row.unit_price * row.quantity)
                              - GetOr(row.discount_amount, 0)))

\* The decimal digits of n, most significant first.
RECURSIVE DecimalDigits(_)
DecimalDigits(n) == IF n < 10 THEN <<n>> ELSE Append(DecimalDigits(n \div 10), n % 10)

\* Digits filled with zeros on the left up to the given width, never cut.
RECURSIVE ZeroPadded(_, _)
ZeroPadded(digits, width) ==
    IF Len(digits) >= width THEN digits ELSE ZeroPadded(<<0>> \o digits, width)

\* f"return_{counter:07d}"
ReturnId(n) == [prefix |-> "return_", digits |-> ZeroPadded(DecimalDigits(n), 7)]

\* The row appended to returns for a sales row.
ReturnRow(row, n, reason) ==
    [return_id |-> ReturnId(n),
     order_line_id |-> row.order_line_id,
     product_id |-> row.product_id,
     return_reason |-> reason,
     refund_amount |-> RefundAmount(row)]

\* A counter that is not moved on after a return.
CounterKept(n) == n

\* counter += 1
CounterAfterReturn(n) == n + 1

\* The kinds of sales rows: returned ones with a discount below the price,
\* with a discount that is no whole hundredth, with a discount above the
\* price and without the discount_amount key; a row that was not returned and
\* one without the is_returned key.
SalesRowKinds ==
    {[is_returned |-> <<TRUE>>, product_id |-> 1, unit_price |-> 2000, quantity |-> 2,
      discount_amount |-> <<300>>],
     [is_returned |-> <<TRUE>>, product_id |-> 2, unit_price |-> 2000, quantity |-> 1,
      discount_amount |-> <<125>>],
     [is_returned |-> <<TRUE>>, product_id |-> 1, unit_price |-> 1000, quantity |-> 1,
      discount_amount |-> <<1500>>],
     [is_returned |-> <<TRUE>>, product_id |-> 2, unit_price |-> 1990, quantity |-> 1,
      discount_amount |-> <<>>],
     [is_returned |-> <<FALSE>>, product_id |-> 1, unit_price |-> 2000, quantity |-> 1,
      discount_amount |-> <<0>>],
     [is_returned |-> <<>>, product_id |-> 2, unit_price |-> 2000, quantity |-> 1,
      discount_amount |-> <<0>>]}

\* The sales row of the i-th order line: f"{order_id}_{item_num+1}" with one
\* line per order.
SalesRow(kind, i) ==
    [order_line_id |-> <<i, 1>>,
     product_id |-> kind.product_id,
     unit_price |-> kind.unit_price,
     quantity |-> kind.quantity,
     discount_amount |-> kind.discount_amount,
     is_returned |-> kind.is_returned]

\* generate_returns_from_sales(sales_data) has been called and has set up
\* returns and counter.
InitReturns ==
    /\ pc = "looping"
    /\ \E n \in 0..MaxSales :
          \E kinds \in [1..n -> SalesRowKinds] :
             sales_data = [i \in 1..n |-> SalesRow(kinds[i], i)]
    /\ returns = <<>>
    /\ counter = 1
    /\ next_row = 1
    /\ raised = <<>>
    /\ IdleConn
    /\ IdleEngine
    /\ IdleBucket
    /\ IdleTrack
    /\ IdleAgg
    /\ IdleMain
    /\ IdleLabel
    /\ IdleFeat
    /\ IdleRun

\* A round of the loop on a row that is not flagged: continue.
SkipSalesRow ==
    /\ pc = "looping"
    /\ next_row <= Len(sales_data)
    /\ NotReturned(sales_data[next_row])
    /\ next_row' = next_row + 1
    /\ UNCHANGED <<pc, sales_data, returns, counter, raised, connVars, engineVars>>
    /\ UNCHANGED <<bucketVars, trackVars, aggVars, mainVars, labelVars, featVars, runVars>>

\* A round of the loop on a flagged row: a return is appended and the
\* counter moved on.
AppendReturn ==
    /\ pc = "looping"
    /\ next_row <= Len(sales_data)
    /\ ~NotReturned(sales_data[next_row])
    /\ \E reason \in Reasons :
          returns' = Append(returns, ReturnRow(sales_data[next_row], counter, reason))
    /\ counter' = CounterAfterReturn(counter)
    /\ next_row' = next_row + 1
    /\ UNCHANGED <<pc, sales_data, raised, connVars, engineVars>>
    /\ UNCHANGED <<bucketVars, trackVars, aggVars, mainVars, labelVars, featVars, runVars>>

\* return returns
ReturnReturns ==
    /\ pc = "looping"
    /\ next_row > Len(sales_data)
    /\ pc' = "done"
    /\ UNCHANGED <<raised, connVars, engineVars, returnsVars>>
    /\ UNCHANGED <<bucketVars, trackVars, aggVars, mainVars, labelVars, featVars, runVars>>

NextReturns ==
    \/ SkipSalesRow
    \/ AppendReturn
    \/ ReturnReturns

SpecReturns == InitReturns /\ [][NextReturns]_vars

\* The positions of the flagged sales rows before position upto, in order.
FlaggedBefore(upto) ==
    SelectSeq([i \in 1..Len(sales_data) |-> i],
              LAMBDA i : i < upto /\ sales_data[i].is_returned = <<TRUE>>)

\* The number a sequence of decimal digits stands for.
RECURSIVE DigitsValue(_)
DigitsValue(digits) ==
    IF digits = <<>> THEN 0
    ELSE 10 * DigitsValue(SubSeq(digits, 1, Len(digits) - 1)) + digits[Len(digits)]

\* C30: the returns are, in order, one row for each flagged sales row the
\* loop has passed and none for the others; each carries the order_line_id
\* and product_id of its sales row and the return id of its position counted
\* from 1, so that return ids are pairwise distinct; no refund_amount is
\* negative; and the loop has passed every sales row when the call returns.
C30_OneReturnPerFlaggedSalesRow ==
    LET flagged == FlaggedBefore(next_row)
    IN  /\ Len(returns) = Len(flagged)
        /\ \A k \in DOMAIN returns :
              /\ k \in DOMAIN flagged
              /\ returns[k].order_line_id = sales_data[flagged[k]].order_line_id
              /\ returns[k].product_id = sales_data[flagged[k]].product_id
              /\ returns[k].return_id.prefix = "return_"
              /\ DigitsValue(returns[k].return_id.digits) = k
              /\ returns[k].refund_amount >= 0
        /\ \A k, l \in DOMAIN returns :
              k # l => returns[k].return_id # returns[l].return_id
        /\ pc = "done" => next_row = Len(sales_data) + 1

\* The call has returned two returns for three sales rows, the second of
\* which was not flagged: the first refund was held at zero, the second was
\* rounded to the even hundredth and has the id return_0000002.
C30_Witness ==
    /\ pc = "done"
    /\ Len(sales_data) = 3
    /\ sales_data[1].is_returned = <<TRUE>>
    /\ sales_data[2].is_returned = <<>>
    /\ sales_data[3].is_returned = <<TRUE>>
    /\ Len(returns) = 2
    /\ returns[1].refund_amount = 0
    /\ returns[2].refund_amount = 1880
    /\ returns[2].return_id.digits = <<0, 0, 0, 0, 0, 0, 2>>
    /\ returns[2].order_line_id = <<3, 1>>

=============================================================================
